---------------------------- MODULE Spec2Model ----------------------------
(***************************************************************************)
(* A model of the XPath 1.0 engine (package xpatheng): the compiler that   *)
(* lowers a parsed expression to an evaluator tree, static simplification, *)
(* the evaluator, the axis iterators and the document-order comparator.    *)
(*                                                                         *)
(* Conventions                                                             *)
(*   - a dom.Node is a record [own, pfx, ser]: a node of the document has   *)
(*     own = its index, pfx = "#" and ser = <<>>; a *dom.NameSpace made by *)
(*     NamespaceAxis has own = its owner element, pfx = its prefix and     *)
(*     ser = the place of the NamespaceAxis call that allocated it (two    *)
(*     calls give two different pointers);                                 *)
(*   - a Go string that is converted or compared is a sequence of          *)
(*     one-character strings; names (element, attribute, prefix, variable, *)
(*     function) are only compared, and are TLA+ strings;                  *)
(*   - a float64 is [t |-> "num", nan, n] with n the value in tenths;       *)
(*   - a panic is a value [t |-> "panic", p]: p = "runtime" is a            *)
(*     runtime.Error, which panic2error panics again.                      *)
(***************************************************************************)
EXTENDS Integers, Sequences, FiniteSets, TLC

VARIABLES
    pc,       \* "parse", "compile", "eval", "done": the next call of the client
    cfg,      \* the Compiler: its Namespaces and whether Functions is set
    ast,      \* the parsed expression (xpath.Expr) handed to Compiler.compile
    xp,       \* what Compile gave back: the XPath, an error, or a crash
    ctxNode,  \* the context node given to Eval
    vars,     \* the Variables given to Eval
    mapFlip,  \* the order in which this run ranges over a Go map of two keys
    result,   \* what the Eval call gave back, and which call it was
    mem,      \* the backing array of the node-set slice bound to $v
    gr,       \* per goroutine: where it is in unionExpr.Eval, and its locals
    written   \* <<goroutine, index>>: the cells of mem an evaluation has written

concVars == <<mem, gr, written>>

vars_all == <<pc, cfg, ast, xp, ctxNode, vars, mapFlip, result, mem, gr, written>>

(***************************************************************************)
(* The document.                                                           *)
(*                                                                         *)
(*   0  /                                                                  *)
(*   1    <r b="2" a="1" xmlns:p="u">          attributes 5 (b), 6 (a)     *)
(*   2       <c xmlns="d" xmlns:q="v">                                     *)
(*   3          "1"                                                        *)
(*   4       <d x="a"/>                        attribute 7 (x)             *)
(***************************************************************************)
N(i) == [own |-> i, pfx |-> "#", ser |-> <<>>]

Nil == N(0 - 1)

DocKind == <<"doc", "elem", "elem", "text", "elem", "attr", "attr", "attr">>

DocParent == <<0 - 1, 0, 1, 2, 1, 0 - 1, 0 - 1, 0 - 1>>

DocOwner == <<0 - 1, 0 - 1, 0 - 1, 0 - 1, 0 - 1, 1, 1, 4>>

DocChildren == << <<1>>, <<2, 4>>, <<3>>, <<>>, <<>>, <<>>, <<>>, <<>> >>

DocAttrs == << <<>>, <<5, 6>>, <<>>, <<>>, <<7>>, <<>>, <<>>, <<>> >>

DocName == <<"", "r", "c", "", "d", "b", "a", "x">>

DocData == << <<>>, <<>>, <<>>, <<"1">>, <<>>, <<"2">>, <<"1">>, <<"a">> >>

\* Element.NSDecl, as the sequence of its keys in one iteration order.
DocNSDecl == << <<>>, <<"p">>, <<"", "q">>, <<>>, <<>>, <<>>, <<>>, <<>> >>

DocNodes == {N(i) : i \in 0 .. Len(DocKind) - 1}

IsNil(n) == n.own < 0

IsNamespace(n) == n.pfx # "#"

KindOf(n) ==
    IF IsNil(n) THEN "nil"
    ELSE IF IsNamespace(n) THEN "ns"
    ELSE DocKind[n.own + 1]

IsAttribute(n) == KindOf(n) = "attr"

IsElement(n) == KindOf(n) = "elem"

IsChild(n) == ~ (KindOf(n) \in {"attr", "ns"})

\* n.Parent() of the dom package: the structural parent; nil for the
\* document, an attribute and a namespace node.
DomParent(n) ==
    IF IsNil(n) \/ IsNamespace(n) \/ DocParent[n.own + 1] < 0 THEN Nil
    ELSE N(DocParent[n.own + 1])

\* Parent(n): the parent as per the XPath data model.
Parent(n) ==
    CASE KindOf(n) = "attr" -> N(DocOwner[n.own + 1])
      [] KindOf(n) = "ns" -> N(n.own)
      [] OTHER -> DomParent(n)

Children(n) ==
    IF KindOf(n) \in {"doc", "elem"}
    THEN [i \in 1 .. Len(DocChildren[n.own + 1]) |-> N(DocChildren[n.own + 1][i])]
    ELSE <<>>

Attrs(n) == [i \in 1 .. Len(DocAttrs[n.own + 1]) |-> N(DocAttrs[n.own + 1][i])]


(***************************************************************************)
(* Names are compared with strings.Compare: NameRank gives the place of    *)
(* each name of the model in that (bytewise lexicographic) order.          *)
(***************************************************************************)
NameRank(s) ==
    CASE s = "" -> 0
      [] s = "a" -> 1
      [] s = "b" -> 2
      [] s = "p" -> 3
      [] s = "q" -> 4
      [] s = "x" -> 5
      [] s = "xml" -> 6
      [] OTHER -> 7

StringsCompare(s1, s2) ==
    IF NameRank(s1) < NameRank(s2) THEN 0 - 1
    ELSE IF NameRank(s1) > NameRank(s2) THEN 1
    ELSE 0

Last(s) == s[Len(s)]

Front(s) == SubSeq(s, 1, Len(s) - 1)

Range(s) == {s[i] : i \in 1 .. Len(s)}

Reverse(s) == [i \in 1 .. Len(s) |-> s[Len(s) + 1 - i]]

RECURSIVE Flatten(_)
Flatten(ss) == IF ss = <<>> THEN <<>> ELSE Head(ss) \o Flatten(Tail(ss))

IndexOf(s, x) == IF x \in Range(s) THEN CHOOSE i \in 1 .. Len(s) : s[i] = x ELSE 0

(***************************************************************************)
(* The axes.  Each operator gives the nodes its iterator yields, in the    *)
(* order of the Next calls.  AxisPanics tells the axes whose constructor   *)
(* calls a method of a nil context node.                                   *)
(***************************************************************************)
SelfAxis(n) == IF IsNil(n) THEN <<>> ELSE <<n>>

ParentAxis(n) == IF IsNil(Parent(n)) THEN <<>> ELSE <<Parent(n)>>

ChildAxis(n) == Children(n)

FollowingSiblingAxis(n) ==
    LET p == DomParent(n)
        i == IndexOf(Children(p), n)
    IN  IF IsNil(p) \/ i = 0 THEN <<>>
        ELSE SubSeq(Children(p), i + 1, Len(Children(p)))

PrecedingSiblingAxis(n) ==
    LET p == DomParent(n)
        i == IndexOf(Children(p), n)
    IN  IF IsNil(p) \/ i = 0 THEN <<>>
        ELSE Reverse(SubSeq(Children(p), 1, i - 1))

AttributeAxis(n) == IF IsElement(n) THEN Attrs(n) ELSE <<>>

\* "for prefix, uri := range e.NSDecl": Go fixes no order.
MapRange(keys, flip) ==
    IF flip /\ Len(keys) = 2 THEN <<keys[2], keys[1]>> ELSE keys

RECURSIVE NsPrefixes(_, _, _)
NsPrefixes(e, m, flip) ==
    LET ks == SelectSeq(MapRange(DocNSDecl[e.own + 1], flip), LAMBDA k : k \notin m)
        p == DomParent(e)
    IN  ks \o (IF IsElement(p) THEN NsPrefixes(p, m \cup Range(ks), flip) ELSE <<>>)

NamespaceAxis(n, site, flip) ==
    IF IsElement(n)
    THEN LET ps == <<"xml">> \o NsPrefixes(n, {}, flip)
         IN  [i \in 1 .. Len(ps) |-> [own |-> n.own, pfx |-> ps[i], ser |-> site \o <<i>>]]
    ELSE <<>>

RECURSIVE ancestorOrSelfIter(_)
ancestorOrSelfIter(n) ==
    IF IsNil(n) THEN <<>> ELSE <<n>> \o ancestorOrSelfIter(Parent(n))

AncestorAxis(n) == ancestorOrSelfIter(DomParent(n))

AncestorOrSelfAxis(n) == ancestorOrSelfIter(n)

RECURSIVE descendantIter(_)
descendantIter(children) ==
    Flatten([i \in 1 .. Len(children) |->
                <<children[i]>> \o descendantIter(ChildAxis(children[i]))])

DescendantAxis(n) == descendantIter(ChildAxis(n))

DescendantOrSelfAxis(n) == descendantIter(SelfAxis(n))

\* followingIter stops at the first ancestor-or-self that is the Document.
RECURSIVE UntilDocument(_)
UntilDocument(as) ==
    IF as = <<>> \/ KindOf(Head(as)) = "doc" THEN <<>>
    ELSE <<Head(as)>> \o UntilDocument(Tail(as))

\* precedingIter: for each ancestor-or-self, each preceding sibling (nearest
\* first), its subtree in reverse document order (childrenOrSelfIter, taken
\* from the back, descends into a child before yielding it; self comes last)
PrecedingAxis(n) ==
    LET as == AncestorOrSelfAxis(n)
    IN  Flatten([i \in 1 .. Len(as) |->
            LET ps == PrecedingSiblingAxis(as[i])
            IN  Flatten([j \in 1 .. Len(ps) |-> Reverse(DescendantOrSelfAxis(ps[j]))])])

FollowingAxisShallow(n) == FollowingSiblingAxis(n)

FollowingAxis(n) ==
    LET as == UntilDocument(AncestorOrSelfAxis(n))
    IN  Flatten([i \in 1 .. Len(as) |->
            LET fs == FollowingSiblingAxis(as[i])
            IN  Flatten([j \in 1 .. Len(fs) |-> DescendantOrSelfAxis(fs[j])])])

Axes ==
    {"child", "descendant", "parent", "ancestor", "following-sibling",
     "preceding-sibling", "following", "preceding", "attribute", "namespace", "self",
     "descendant-or-self", "ancestor-or-self"}

\* iterators[axis](n)
AxisNodes(axis, n, site, flip) ==
    CASE axis = "child" -> ChildAxis(n)
      [] axis = "descendant" -> DescendantAxis(n)
      [] axis = "parent" -> ParentAxis(n)
      [] axis = "ancestor" -> AncestorAxis(n)
      [] axis = "following-sibling" -> FollowingSiblingAxis(n)
      [] axis = "preceding-sibling" -> PrecedingSiblingAxis(n)
      [] axis = "preceding" -> PrecedingAxis(n)
      [] axis = "following" -> FollowingAxis(n)
      [] axis = "attribute" -> AttributeAxis(n)
      [] axis = "namespace" -> NamespaceAxis(n, site, flip)
      [] axis = "self" -> SelfAxis(n)
      [] axis = "descendant-or-self" -> DescendantOrSelfAxis(n)
      [] axis = "ancestor-or-self" -> AncestorOrSelfAxis(n)

\* n.Parent() and Parent(n) call a method of n: a nil n is a nil dereference.
AxisPanics(axis, n) ==
    IsNil(n) /\ axis \in {"parent", "ancestor", "following-sibling", "preceding-sibling"}

(***************************************************************************)
(* The iterators themselves, one Next call at a time.  An iterator is a    *)
(* record of its fields; IterNext gives the node the call returns (Nil for *)
(* nil) and the iterator after the call.                                   *)
(***************************************************************************)
emptyIter == [t |-> "emptyIter"]

onceIter(n) == [t |-> "onceIter", n |-> n]

\* i counts from 0 as in the code
sliceIter(arr, i) == [t |-> "sliceIter", arr |-> arr, i |-> i]

reverseIter(arr, i) == [t |-> "reverseIter", arr |-> arr, i |-> i]

ChildIter(n) ==
    IF KindOf(n) \in {"doc", "elem"} THEN sliceIter(Children(n), 0) ELSE emptyIter

selfOnlyIter(n) == reverseIter(<<n>>, 0)

childrenOrSelfIter(n) == reverseIter(<<n>> \o ChildAxis(n), Len(ChildAxis(n)))

FollowingSiblingIter(n) ==
    IF IsNil(DomParent(n)) \/ IndexOf(Children(DomParent(n)), n) = 0 THEN emptyIter
    ELSE sliceIter(Children(DomParent(n)), IndexOf(Children(DomParent(n)), n))

PrecedingSiblingIter(n) ==
    IF IsNil(DomParent(n)) \/ IndexOf(Children(DomParent(n)), n) = 0 THEN emptyIter
    ELSE reverseIter(Children(DomParent(n)), IndexOf(Children(DomParent(n)), n) - 2)

AncestorOrSelfIter(n) == [t |-> "ancestorOrSelfIter", n |-> n]

DescendantIter(children) == [t |-> "descendantIter", stack |-> <<>>, children |-> children]

\* iterators[axis](n) for a node n that is not nil
NewIter(axis, n, flip) ==
    CASE axis = "child" -> ChildIter(n)
      [] axis = "descendant" -> DescendantIter(ChildIter(n))
      [] axis = "parent" -> onceIter(Parent(n))
      [] axis = "ancestor" -> AncestorOrSelfIter(DomParent(n))
      [] axis = "following-sibling" -> FollowingSiblingIter(n)
      [] axis = "preceding-sibling" -> PrecedingSiblingIter(n)
      [] axis = "following" ->
            [t |-> "followingIter", ancestorOrSelf |-> AncestorOrSelfIter(n),
             followingSibling |-> emptyIter, descendantOrSelf |-> emptyIter]
      [] axis = "preceding" ->
            [t |-> "precedingIter", ancestorOrSelf |-> AncestorOrSelfIter(n),
             precedingSibling |-> emptyIter, childrenOrSelf |-> reverseIter(<<>>, 0 - 1),
             stack |-> <<>>]
      [] axis = "attribute" -> sliceIter(AttributeAxis(n), 0)
      [] axis = "namespace" -> sliceIter(NamespaceAxis(n, <<>>, flip), 0)
      [] axis = "self" -> onceIter(n)
      [] axis = "descendant-or-self" -> DescendantIter(onceIter(n))
      [] axis = "ancestor-or-self" -> AncestorOrSelfIter(n)

Got(n, it) == [n |-> n, it |-> it]

\* In the operators below the result of an inner Next call is bound by a
\* one-element set, {... : r \in {IterNext(...)}}, so that the call is made
\* once, as in the code, however often its result is read.

\* a slice iterator that starts over once it has returned nil: what
\* sliceIter.Next does not do
sliceNextRewound(it) ==
    IF it.i < Len(it.arr) THEN Got(it.arr[it.i + 1], [it EXCEPT !.i = it.i + 1])
    ELSE Got(Nil, [it EXCEPT !.i = 0])

\* sliceIter.Next
sliceNext(it) ==
    IF it.i < Len(it.arr) THEN Got(it.arr[it.i + 1], [it EXCEPT !.i = it.i + 1])
    ELSE Got(Nil, it)

RECURSIVE IterNext(_)
RECURSIVE descendantNext(_)
RECURSIVE followingNext(_)
RECURSIVE followingSeek(_)
RECURSIVE precedingNext(_)
RECURSIVE precedingSeek(_)

\* descendantIter.Next after children.Next() has returned r
descendantGot(it, r) ==
    IF ~ IsNil(r.n)
    THEN Got(r.n, [it EXCEPT !.stack = Append(it.stack, r.it), !.children = ChildIter(r.n)])
    ELSE IF it.stack = <<>> THEN Got(Nil, [it EXCEPT !.children = r.it])
    ELSE descendantNext([it EXCEPT !.children = Last(it.stack), !.stack = Front(it.stack)])

descendantNext(it) ==
    CHOOSE got \in {descendantGot(it, r) : r \in {IterNext(it.children)}} : TRUE

\* followingIter.Next after ancestorOrSelf.Next() has returned a
followingAncestorGot(it, a) ==
    IF IsNil(a.n) \/ KindOf(a.n) = "doc" THEN Got(Nil, [it EXCEPT !.ancestorOrSelf = a.it])
    ELSE followingSeek([it EXCEPT !.ancestorOrSelf = a.it,
                                  !.followingSibling = FollowingSiblingIter(a.n)])

\* ... after followingSibling.Next() has returned s
followingSiblingGot(it, s) ==
    IF ~ IsNil(s.n)
    THEN followingNext([it EXCEPT !.followingSibling = s.it,
                                  !.descendantOrSelf = DescendantIter(onceIter(s.n))])
    ELSE CHOOSE got \in {followingAncestorGot([it EXCEPT !.followingSibling = s.it], a) :
                            a \in {IterNext(it.ancestorOrSelf)}} : TRUE

followingSeek(it) ==
    CHOOSE got \in {followingSiblingGot(it, s) : s \in {IterNext(it.followingSibling)}} : TRUE

\* ... after descendantOrSelf.Next() has returned r
followingGot(it, r) ==
    IF ~ IsNil(r.n) THEN Got(r.n, [it EXCEPT !.descendantOrSelf = r.it])
    ELSE followingSeek([it EXCEPT !.descendantOrSelf = r.it])

followingNext(it) ==
    CHOOSE got \in {followingGot(it, r) : r \in {IterNext(it.descendantOrSelf)}} : TRUE

\* precedingIter.Next after ancestorOrSelf.Next() has returned a
precedingAncestorGot(it, a) ==
    IF IsNil(a.n) THEN Got(Nil, [it EXCEPT !.ancestorOrSelf = a.it])
    ELSE precedingSeek([it EXCEPT !.ancestorOrSelf = a.it,
                                  !.precedingSibling = PrecedingSiblingIter(a.n)])

\* ... after precedingSibling.Next() has returned ps
precedingSiblingGot(it, ps) ==
    IF ~ IsNil(ps.n)
    THEN precedingNext([it EXCEPT !.precedingSibling = ps.it,
                                  !.childrenOrSelf = childrenOrSelfIter(ps.n)])
    ELSE CHOOSE got \in {precedingAncestorGot([it EXCEPT !.precedingSibling = ps.it], a) :
                            a \in {IterNext(it.ancestorOrSelf)}} : TRUE

precedingSeek(it) ==
    CHOOSE got \in {precedingSiblingGot(it, ps) : ps \in {IterNext(it.precedingSibling)}} : TRUE

\* ... after childrenOrSelf.Next() has returned r; r.it.i >= 0 is hasNext()
precedingGot(it, r) ==
    IF IsNil(r.n)
    THEN IF it.stack = <<>> THEN precedingSeek([it EXCEPT !.childrenOrSelf = r.it])
         ELSE precedingNext([it EXCEPT !.childrenOrSelf = Last(it.stack),
                                       !.stack = Front(it.stack)])
    ELSE IF r.it.i >= 0
    THEN precedingNext([it EXCEPT !.stack = Append(it.stack, r.it),
                                  !.childrenOrSelf = childrenOrSelfIter(r.n)])
    ELSE Got(r.n, [it EXCEPT !.childrenOrSelf = r.it])

precedingNext(it) ==
    CHOOSE got \in {precedingGot(it, r) : r \in {IterNext(it.childrenOrSelf)}} : TRUE

IterNext(it) ==
    CASE it.t = "emptyIter" -> Got(Nil, it)
      [] it.t = "onceIter" ->
            IF ~ IsNil(it.n) THEN Got(it.n, [it EXCEPT !.n = Nil]) ELSE Got(Nil, it)
      [] it.t = "sliceIter" -> sliceNext(it)
      [] it.t = "reverseIter" ->
            IF it.i >= 0 THEN Got(it.arr[it.i + 1], [it EXCEPT !.i = it.i - 1])
            ELSE Got(Nil, it)
      [] it.t = "ancestorOrSelfIter" ->
            IF ~ IsNil(it.n) THEN Got(it.n, [it EXCEPT !.n = Parent(it.n)])
            ELSE Got(Nil, it)
      [] it.t = "descendantIter" -> descendantNext(it)
      [] it.t = "followingIter" -> followingNext(it)
      [] it.t = "precedingIter" -> precedingNext(it)

(***************************************************************************)
(* Document order.                                                         *)
(***************************************************************************)
RECURSIVE depth(_)
depth(n) == IF IsNil(Parent(n)) THEN 0 ELSE 1 + depth(Parent(n))

RECURSIVE Up(_, _)
Up(n, k) == IF k <= 0 THEN n ELSE Up(Parent(n), k - 1)

cmpSiblings(s1, s2) ==
    IF ~ IsChild(s1) THEN 1
    ELSE IF ~ IsChild(s2) THEN 0 - 1
    ELSE IF s2 \in Range(FollowingSiblingAxis(s1)) THEN 0 - 1
    ELSE 1

RECURSIVE cmpLockstep(_, _)
cmpLockstep(a1, a2) ==
    IF Parent(a1) = Parent(a2) THEN cmpSiblings(a1, a2)
    ELSE cmpLockstep(Parent(a1), Parent(a2))

RECURSIVE cmp(_, _)
cmp(n1, n2) ==
    IF n1 = n2 THEN 0
    ELSE IF ~ IsChild(n1) /\ ~ IsChild(n2)
    THEN IF Parent(n1) = Parent(n2)
         THEN IF IsNamespace(n1)
              THEN IF IsAttribute(n2) THEN 0 - 1
                   ELSE StringsCompare(n1.pfx, n2.pfx)
              ELSE IF IsNamespace(n2) THEN 1
                   ELSE StringsCompare(DocName[n1.own + 1], DocName[n2.own + 1])
         ELSE cmp(Parent(n1), Parent(n2))
    ELSE LET d1 == depth(n1)
             d2 == depth(n2)
             a1 == Up(n1, d1 - d2)
             a2 == Up(n2, d2 - d1)
         IN  IF a1 = n2 THEN 1
             ELSE IF a2 = n1 THEN 0 - 1
             ELSE cmpLockstep(a1, a2)

\* sort.Slice on a slice of at most 12 elements is an insertion sort: each
\* element is swapped towards the front while it is less than the one before.
RECURSIVE InsertBack(_, _)
InsertBack(sorted, x) ==
    IF sorted # <<>> /\ cmp(x, Last(sorted)) < 0
    THEN InsertBack(Front(sorted), x) \o <<Last(sorted)>>
    ELSE sorted \o <<x>>

RECURSIVE order(_)
order(ns) == IF ns = <<>> THEN <<>> ELSE InsertBack(order(Front(ns)), Last(ns))

(***************************************************************************)
(* Values and the conversions of XPath 1.0 section 4.                      *)
(***************************************************************************)
Unknown == 0

NodeSet == 1

String == 2

Number == 3

Boolean == 4

NodeSetV(ns) == [t |-> "ns", ns |-> ns]

StrV(s) == [t |-> "str", s |-> s]

NumV(n) == [t |-> "num", nan |-> FALSE, n |-> n]

NaN == [t |-> "num", nan |-> TRUE, n |-> 0]

BoolV(b) == [t |-> "bool", b |-> b]

\* a Go value that is none of []dom.Node, string, float64, bool (an int, say)
OtherV == [t |-> "other"]

\* the nil interface value
NilV == [t |-> "nil"]

Panic(p) == [t |-> "panic", p |-> p]

IsPanic(v) == v.t = "panic"

\* outside the numbers the model can hold: TLC stops if it is ever asked for
Unrepresentable == CHOOSE x \in {} : TRUE

Digits == <<"0", "1", "2", "3", "4", "5", "6", "7", "8", "9">>

IsDigit(c) == c \in Range(Digits)

DigitVal(c) == IndexOf(Digits, c) - 1

\* the numbers of the model are kept to one decimal digit
Scale == Len(Digits)

\* float64(k)
Int2Num(k) == NumV(k * Scale)

RECURSIVE Itoa(_)
Itoa(k) ==
    IF k < 0 THEN <<"-">> \o Itoa(0 - k)
    ELSE IF k < 10 THEN <<Digits[k + 1]>>
    ELSE Itoa(k \div 10) \o <<Digits[(k % 10) + 1]>>

RECURSIVE Atoi(_)
Atoi(ds) == IF ds = <<>> THEN 0 ELSE Atoi(Front(ds)) * 10 + DigitVal(Last(ds))

\* strconv.ParseFloat(s, 64) on the strings of the model: an optional sign,
\* digits, an optional point and digits, with a digit somewhere.
String2Number(s) ==
    LET signed == s # <<>> /\ Head(s) \in {"-", "+"}
        body == IF signed THEN Tail(s) ELSE s
        dot == IndexOf(body, ".")
        ip == IF dot = 0 THEN body ELSE SubSeq(body, 1, dot - 1)
        fp == IF dot = 0 THEN <<>> ELSE SubSeq(body, dot + 1, Len(body))
        wellFormed ==
            /\ \A i \in 1 .. Len(ip) : IsDigit(ip[i])
            /\ \A i \in 1 .. Len(fp) : IsDigit(fp[i])
            /\ Len(ip) + Len(fp) > 0
        tenths ==
            IF \E i \in 2 .. Len(fp) : fp[i] # "0" THEN Unrepresentable
            ELSE Atoi(ip) * Scale + (IF fp = <<>> THEN 0 ELSE DigitVal(fp[1]))
    IN  IF ~ wellFormed THEN NaN
        ELSE NumV(IF signed /\ Head(s) = "-" THEN 0 - tenths ELSE tenths)

\* the float64 case of Value2String
Number2String(v) ==
    IF v.nan THEN <<"N", "a", "N">>
    ELSE IF v.n % Scale = 0
    THEN Itoa(IF v.n < 0 THEN 0 - ((0 - v.n) \div Scale) ELSE v.n \div Scale)
    ELSE LET a == IF v.n < 0 THEN 0 - v.n ELSE v.n
         IN  (IF v.n < 0 THEN <<"-">> ELSE <<>>)
                \o Itoa(a \div Scale) \o <<".">> \o Itoa(a % Scale)

\* the URI a prefix is bound to in the document
PrefixURI(pfx) ==
    CASE pfx = "xml" -> <<"x">>
      [] pfx = "p" -> <<"u">>
      [] pfx = "q" -> <<"v">>
      [] OTHER -> <<"d">>

RECURSIVE collectText(_)
collectText(n) ==
    IF KindOf(n) = "text" THEN DocData[n.own + 1]
    ELSE Flatten([i \in 1 .. Len(Children(n)) |-> collectText(Children(n)[i])])

Node2String(n) ==
    CASE KindOf(n) \in {"text", "attr"} -> DocData[n.own + 1]
      [] KindOf(n) = "ns" -> PrefixURI(n.pfx)
      [] OTHER -> collectText(n)

Node2Number(n) == String2Number(Node2String(n))

TypeOf(v) ==
    CASE v.t = "ns" -> NodeSet
      [] v.t = "str" -> String
      [] v.t = "num" -> Number
      [] v.t = "bool" -> Boolean
      [] OTHER -> Unknown

\* TypeOf panics with InvalidValueError on any other value
TypeOfPanics(v) == ~ (v.t \in {"ns", "str", "num", "bool"})

Value2String(v) ==
    CASE v.t = "ns" -> StrV(IF v.ns = <<>> THEN <<>> ELSE Node2String(v.ns[1]))
      [] v.t = "str" -> v
      [] v.t = "num" -> StrV(Number2String(v))
      [] v.t = "bool" -> StrV(IF v.b THEN <<"t", "r", "u", "e">>
                                      ELSE <<"f", "a", "l", "s", "e">>)
      [] v.t = "panic" -> v
      [] OTHER -> Panic("string")

Value2Number(v) ==
    CASE v.t = "ns" -> String2Number(Value2String(v).s)
      [] v.t = "str" -> String2Number(v.s)
      [] v.t = "num" -> v
      [] v.t = "bool" -> IF v.b THEN Int2Num(1) ELSE Int2Num(0)
      [] v.t = "panic" -> v
      [] OTHER -> Panic("string")

Value2Boolean(v) ==
    CASE v.t = "ns" -> BoolV(Len(v.ns) > 0)
      [] v.t = "str" -> BoolV(Len(v.s) > 0)
      [] v.t = "num" -> BoolV(~ (v.n = 0 \/ v.nan))
      [] v.t = "bool" -> v
      [] v.t = "panic" -> v
      [] OTHER -> Panic("string")

(***************************************************************************)
(* Function signatures.                                                    *)
(***************************************************************************)
Mandatory(t) == t

Optional(t) == t + 10

Variadic(t) == t + 20

RECURSIVE mandatoryFrom(_, _)
mandatoryFrom(a, i) ==
    IF i > Len(a) THEN 0
    ELSE IF a[i] \div 10 = 0 THEN 1 + mandatoryFrom(a, i + 1)
    ELSE 0

mandatory(a) == mandatoryFrom(a, 1)

variadic(a) == Len(a) > 0 /\ a[Len(a)] \div 10 = 2

canAccept(a, nArgs) == nArgs >= mandatory(a) /\ (variadic(a) \/ nArgs <= Len(a))

typeOfFirst(a, i) == a[1] % 10

\* i counts from 0 as in the code
typeOf(a, i) == a[(IF i >= Len(a) THEN Len(a) - 1 ELSE i) + 1] % 10

RECURSIVE ValidFrom(_, _, _)
ValidFrom(a, i, prev) ==
    IF i > Len(a) THEN TRUE
    ELSE LET div == a[i] \div 10
         IN  IF \/ div = 0 /\ prev # 0
                \/ div = 1 /\ prev # 0 /\ prev # 1
                \/ div = 2 /\ prev >= 2
             THEN FALSE
             ELSE ValidFrom(a, i + 1, div)

ValidTail(a) == ValidFrom(a, 2, 0)

Valid(a) == ValidFrom(a, 1, 0)

(***************************************************************************)
(* The core function table.  type is the expression the compile hook       *)
(* builds, reads the number of arguments the hook indexes without looking  *)
(* at their count, dflt whether the hook supplies the context node when    *)
(* there is no argument.                                                   *)
(***************************************************************************)
Fn(name, returns, args, type, reads, dflt) ==
    [name |-> name, Returns |-> returns, Args |-> args, type |-> type,
     reads |-> reads, dflt |-> dflt]

Core(name, returns, args, type, reads, dflt) ==
    Fn(<<"", name>>, returns, args, type, reads, dflt)

coreFunctions == <<
    Core("string", String, <<Optional(Unknown)>>, "stringFunc", 0, TRUE),
    Core("number", Number, <<Optional(Unknown)>>, "numberFunc", 0, TRUE),
    Core("boolean", Boolean, <<Optional(Unknown)>>, "booleanFunc", 1, FALSE),
    Core("name", String, <<Optional(NodeSet)>>, "qname", 0, TRUE),
    Core("local-name", String, <<Optional(NodeSet)>>, "localName", 0, TRUE),
    Core("namespace-uri", String, <<Optional(NodeSet)>>, "namespaceURI", 0, TRUE),
    Core("position", Number, <<>>, "position", 0, FALSE),
    Core("last", Number, <<>>, "last", 0, FALSE),
    Core("count", Number, <<Mandatory(NodeSet)>>, "count", 1, FALSE),
    Core("sum", Number, <<Mandatory(NodeSet)>>, "sum", 1, FALSE),
    Core("floor", Number, <<Mandatory(Number)>>, "floor", 1, FALSE),
    Core("ceiling", Number, <<Mandatory(Number)>>, "ceiling", 1, FALSE),
    Core("round", Number, <<Mandatory(Number)>>, "round", 1, FALSE),
    Core("normalize-space", String, <<Optional(String)>>, "normalizeSpace", 0, TRUE),
    Core("string-length", Number, <<Optional(String)>>, "stringLength", 0, TRUE),
    Core("starts-with", Boolean, <<Mandatory(String), Mandatory(String)>>,
       "startsWith", 2, FALSE),
    Core("ends-with", Boolean, <<Mandatory(String), Mandatory(String)>>,
       "endsWith", 2, FALSE),
    Core("contains", Boolean, <<Mandatory(String), Mandatory(String)>>,
       "contains", 2, FALSE),
    Core("concat", String, <<Mandatory(String), Mandatory(String), Variadic(String)>>,
       "concat", 0, FALSE),
    Core("translate", String, <<Mandatory(String), Mandatory(String), Mandatory(String)>>,
       "translate", 3, FALSE),
    Core("substring", String, <<Mandatory(String), Mandatory(Number), Optional(Number)>>,
       "substring", 2, FALSE),
    Core("substring-before", String, <<Mandatory(String), Mandatory(String)>>,
       "substringBefore", 2, FALSE),
    Core("substring-after", String, <<Mandatory(String), Mandatory(String)>>,
       "substringAfter", 2, FALSE),
    Core("true", Boolean, <<>>, "true", 0, FALSE),
    Core("false", Boolean, <<>>, "false", 0, FALSE),
    Core("not", Boolean, <<Mandatory(Boolean)>>, "not", 1, FALSE),
    Core("lang", Boolean, <<Mandatory(String)>>, "lang", 1, FALSE) >>

CoreNames == {coreFunctions[i].name : i \in 1 .. Len(coreFunctions)}

\* a FunctionMap a caller may configure; type "funcCall" is what CompileFunc builds
userFunctions == <<
    Fn(<<"ux", "echo">>, String, <<Mandatory(Unknown)>>, "funcCall", 0, FALSE),
    Fn(<<"ux", "nodes">>, NodeSet, <<>>, "funcCall", 0, FALSE),
    Fn(<<"ux", "int">>, Number, <<Mandatory(Unknown)>>, "funcCall", 0, FALSE),
    Fn(<<"ux", "sig">>, String, <<Variadic(String), Mandatory(String)>>,
       "funcCall", 0, FALSE),
    \* entries under the names of core functions
    Fn(<<"", "count">>, String, <<Variadic(Unknown)>>, "funcCall", 0, FALSE),
    Fn(<<"", "true">>, String, <<Variadic(Unknown)>>, "funcCall", 0, FALSE) >>

\* the nil *Function
NoFunction == [name |-> <<>>]

Lookup(table, fname) ==
    IF \E i \in 1 .. Len(table) : table[i].name = fname
    THEN table[CHOOSE i \in 1 .. Len(table) : table[i].name = fname]
    ELSE NoFunction

\* FunctionMap.Resolve.  Besides the table above the caller has registered,
\* in the namespace "us", a function for every signature, under a local name
\* that spells the signature; the model writes the signature itself for it.
Registered(fname) ==
    IF fname[1] = "us"
    THEN Fn(fname, Unknown, fname[2], "funcCall", 0, FALSE)
    ELSE Lookup(userFunctions, fname)

Resolve(fname) == Registered(fname)

ClarkName(uri, local) == <<uri, local>>

(***************************************************************************)
(* The parsed expression (package xpath, the parser's output).             *)
(***************************************************************************)
Num(n) == [k |-> "Number", v |-> NumV(n)]

Str(s) == [k |-> "String", v |-> StrV(s)]

VarRef(prefix, local) == [k |-> "VarRef", Prefix |-> prefix, Local |-> local]

Negate(e) == [k |-> "NegateExpr", Expr |-> e]

Bin(op, lhs, rhs) == [k |-> "BinaryExpr", Op |-> op, LHS |-> lhs, RHS |-> rhs]

NodeType(t) == [type |-> t, Prefix |-> "", Local |-> ""]

NameTest(prefix, local) == [type |-> "name", Prefix |-> prefix, Local |-> local]

Step(axis, test, preds) == [Axis |-> axis, NodeTest |-> test, Predicates |-> preds]

LocationPath(abs, steps) == [k |-> "LocationPath", Abs |-> abs, Steps |-> steps]

FilterExpr(e, preds) == [k |-> "FilterExpr", Expr |-> e, Predicates |-> preds]

PathExpr(filter, lp) == [k |-> "PathExpr", Filter |-> filter, LocationPath |-> lp]

FuncCall(prefix, local, args) ==
    [k |-> "FuncCall", Prefix |-> prefix, Local |-> local, Args |-> args]

(***************************************************************************)
(* The evaluator tree.  A panic of the compiler stands where the           *)
(* expression would: [k |-> "panic", p].                                   *)
(***************************************************************************)
PanicE(p) == [k |-> "panic", p |-> p]

IsPanicE(e) == e.k = "panic"

\* the nil Expr
NilExpr == [k |-> "nil"]

numberVal(v) == [k |-> "numberVal", v |-> v]

stringVal(v) == [k |-> "stringVal", v |-> v]

booleanVal(b) == [k |-> "booleanVal", v |-> BoolV(b)]

ContextExpr == [k |-> "ContextExpr"]

variable(name, returns) == [k |-> "variable", name |-> name, returns |-> returns]

CoreExpr(type, args) == [k |-> type, args |-> args]

funcCall(args, returns, impl) ==
    [k |-> "funcCall", args |-> args, returns |-> returns, impl |-> impl]

CoreReturns(type) ==
    LET f == coreFunctions[CHOOSE i \in 1 .. Len(coreFunctions) :
                               coreFunctions[i].type = type]
    IN  f.Returns

Returns(e) ==
    CASE e.k = "numberVal" -> Number
      [] e.k = "stringVal" -> String
      [] e.k = "booleanVal" -> Boolean
      [] e.k \in {"negateExpr", "arithmeticExpr"} -> Number
      [] e.k \in {"equalityExpr", "relationalExpr", "logicalExpr"} -> Boolean
      [] e.k \in {"ContextExpr", "unionExpr", "locationPath", "filterExpr",
                  "pathExpr"} -> NodeSet
      [] e.k \in {"variable", "funcCall"} -> e.returns
      [] OTHER -> CoreReturns(e.k)

\* the first panic among the expressions es, or NilExpr
FirstPanic(es) ==
    IF \E i \in 1 .. Len(es) : IsPanicE(es[i])
    THEN es[CHOOSE i \in 1 .. Len(es) :
                IsPanicE(es[i]) /\ \A j \in 1 .. i - 1 : ~ IsPanicE(es[j])]
    ELSE NilExpr

asNodeSet(e) ==
    IF e.k = "variable" THEN [e EXCEPT !.returns = NodeSet]
    ELSE IF Returns(e) # NodeSet THEN PanicE("Conversion")
    ELSE e

asString(expr) ==
    IF Returns(expr) = String THEN expr ELSE CoreExpr("stringFunc", <<expr>>)

asNumber(expr) ==
    IF Returns(expr) = Number THEN expr ELSE CoreExpr("numberFunc", <<expr>>)

asBoolean(expr) ==
    IF Returns(expr) = Boolean THEN expr ELSE CoreExpr("booleanFunc", <<expr>>)

\* Value2Expr panics with a string on a value that is no literal
Value2Expr(v) ==
    CASE v.t = "str" -> stringVal(v)
      [] v.t = "num" -> numberVal(v)
      [] v.t = "bool" -> [k |-> "booleanVal", v |-> v]
      [] v.t = "panic" -> PanicE(v.p)
      [] OTHER -> PanicE("string")

Literals(exprs) ==
    \A i \in 1 .. Len(exprs) :
        exprs[i].k \in {"nil", "stringVal", "numberVal", "booleanVal"}

(***************************************************************************)
(* The compiler.  c is the Compiler: c.Namespaces maps prefixes to URIs,   *)
(* c.Functions tells whether a FunctionMap is configured (userFunctions)   *)
(* or the field is nil.                                                    *)
(***************************************************************************)
resolvePrefixPanics(c, prefix) == prefix # "" /\ prefix \notin DOMAIN c.Namespaces

resolvePrefix(c, prefix) == IF prefix = "" THEN "" ELSE c.Namespaces[prefix]

NoReverseAxes == {}

ReverseAxes == {"preceding", "preceding-sibling", "ancestor", "ancestor-or-self"}

\* the expression a function's compile hook returns for the compiled args
Hook(f, args) ==
    IF f.type = "funcCall" THEN funcCall(args, f.Returns, f.name)
    ELSE IF f.type \in {"true", "false"} THEN booleanVal(f.type = "true")
    ELSE IF Len(args) < f.reads THEN PanicE("runtime")
    ELSE IF f.dflt /\ Len(args) = 0
    THEN CoreExpr(f.type, <<IF f.type \in {"normalizeSpace", "stringLength"}
                            THEN asString(ContextExpr) ELSE ContextExpr>>)
    ELSE IF f.type = "substring" /\ Len(args) = 2
    THEN CoreExpr(f.type, args \o <<NilExpr>>)
    ELSE CoreExpr(f.type, args)

ConvertArg(t, arg) ==
    CASE IsPanicE(arg) -> arg
      [] t = Unknown -> arg
      [] t = NodeSet -> asNodeSet(arg)
      [] t = String -> asString(arg)
      [] t = Number -> asNumber(arg)
      [] t = Boolean -> asBoolean(arg)
      [] OTHER -> PanicE("string")

BinaryExpr(op, lhs, rhs) ==
    CASE op \in {"+", "-"} ->
            [k |-> "arithmeticExpr", lhs |-> asNumber(lhs), rhs |-> asNumber(rhs),
             apply |-> op]
      [] op = "and" ->
            [k |-> "logicalExpr", lhs |-> asBoolean(lhs), rhs |-> asBoolean(rhs),
             skipValue |-> FALSE]
      [] op = "or" ->
            [k |-> "logicalExpr", lhs |-> asBoolean(lhs), rhs |-> asBoolean(rhs),
             skipValue |-> TRUE]
      [] op \in {"=", "!="} ->
            [k |-> "equalityExpr", lhs |-> lhs, rhs |-> rhs, apply |-> op]
      [] op \in {"<", "<=", ">", ">="} ->
            [k |-> "relationalExpr", lhs |-> lhs, rhs |-> rhs, apply |-> op]
      [] op = "|" ->
            LET l == asNodeSet(lhs)
                r == asNodeSet(rhs)
            IN  IF IsPanicE(l) THEN l
                ELSE IF IsPanicE(r) THEN r
                ELSE [k |-> "unionExpr", lhs |-> l, rhs |-> r]
      [] OTHER -> PanicE("string")

\* Compiler.nodeTest: the test closure, kept as the data it closes over
nodeTest(c, axis, test) ==
    IF test.type = "name" /\ resolvePrefixPanics(c, test.Prefix)
    THEN PanicE("UnresolvedPrefix")
    ELSE [k |-> "test", type |-> test.type, axis |-> axis, Prefix |-> test.Prefix,
          uri |-> IF test.type = "name" THEN resolvePrefix(c, test.Prefix) ELSE "",
          Local |-> test.Local]

RECURSIVE compile(_, _)
compilePredicates(c, predicates) ==
    [i \in 1 .. Len(predicates) |-> compile(c, predicates[i])]

compileStep(c, estep) ==
    LET test == nodeTest(c, estep.Axis, estep.NodeTest)
        preds == compilePredicates(c, estep.Predicates)
    IN  IF IsPanicE(test) THEN test
        ELSE IF FirstPanic(preds) # NilExpr THEN FirstPanic(preds)
        ELSE [k |-> "step", iter |-> estep.Axis, test |-> test,
              predicates |-> preds, reverse |-> estep.Axis \in ReverseAxes]

\* the user table first: what the compiler does not do
userFunctionFirst(c, fname) ==
    IF c.Functions /\ Resolve(fname) # NoFunction THEN Resolve(fname)
    ELSE Lookup(coreFunctions, fname)

\* function := coreFunctions[fname], and c.Functions.Resolve(fname) if that is nil
lookupFunction(c, fname) ==
    IF Lookup(coreFunctions, fname) = NoFunction /\ c.Functions THEN Resolve(fname)
    ELSE Lookup(coreFunctions, fname)

compileFuncCall(c, e) ==
    LET fname == ClarkName(resolvePrefix(c, e.Prefix), e.Local)
        core == Lookup(coreFunctions, fname)
        function == lookupFunction(c, fname)
        args == [i \in 1 .. Len(e.Args) |->
                    ConvertArg(typeOf(function.Args, i - 1), compile(c, e.Args[i]))]
    IN  IF resolvePrefixPanics(c, e.Prefix) THEN PanicE("UnresolvedPrefix")
        ELSE IF core = NoFunction /\ c.Functions /\ function = NoFunction
        THEN PanicE("UnresolvedFunction")
        \* function.Args of the nil *Function
        ELSE IF function = NoFunction THEN PanicE("runtime")
        ELSE IF ~ Valid(function.Args) THEN PanicE("Signature")
        ELSE IF ~ canAccept(function.Args, Len(e.Args)) THEN PanicE("ArgCount")
        ELSE IF FirstPanic(args) # NilExpr THEN FirstPanic(args)
        ELSE Hook(function, args)

compile(c, e) ==
    CASE e.k = "Number" -> numberVal(e.v)
      [] e.k = "String" -> stringVal(e.v)
      [] e.k = "VarRef" ->
            IF resolvePrefixPanics(c, e.Prefix) THEN PanicE("UnresolvedPrefix")
            ELSE variable(ClarkName(resolvePrefix(c, e.Prefix), e.Local), Unknown)
      [] e.k = "NegateExpr" ->
            LET arg == compile(c, e.Expr)
            IN  IF IsPanicE(arg) THEN arg
                ELSE [k |-> "negateExpr", arg |-> asNumber(arg)]
      [] e.k = "BinaryExpr" ->
            LET lhs == compile(c, e.LHS)
                rhs == compile(c, e.RHS)
            IN  IF IsPanicE(lhs) THEN lhs
                ELSE IF IsPanicE(rhs) THEN rhs
                ELSE BinaryExpr(e.Op, lhs, rhs)
      [] e.k = "LocationPath" ->
            LET steps == [i \in 1 .. Len(e.Steps) |-> compileStep(c, e.Steps[i])]
            IN  IF FirstPanic(steps) # NilExpr THEN FirstPanic(steps)
                ELSE [k |-> "locationPath", abs |-> e.Abs, steps |-> steps]
      [] e.k = "FilterExpr" ->
            LET expr == compile(c, e.Expr)
                preds == compilePredicates(c, e.Predicates)
            IN  IF IsPanicE(expr) THEN expr
                ELSE IF FirstPanic(preds) # NilExpr THEN FirstPanic(preds)
                ELSE [k |-> "filterExpr", expr |-> expr, predicates |-> preds]
      [] e.k = "PathExpr" ->
            LET filter == compile(c, e.Filter)
                lp == compile(c, e.LocationPath)
            IN  IF IsPanicE(filter) THEN filter
                ELSE IF IsPanicE(lp) THEN lp
                ELSE [k |-> "pathExpr", filter |-> filter, locationPath |-> lp]
      [] e.k = "FuncCall" -> compileFuncCall(c, e)
      [] OTHER -> PanicE("string")

(***************************************************************************)
(* The evaluator.  ctx is the *Context; site names the place of a call in  *)
(* the evaluation, so that two calls of NamespaceAxis allocate different   *)
(* nodes; flip is the map iteration order of this evaluation.              *)
(***************************************************************************)
Context(node, pos, size, vs) ==
    [isNil |-> FALSE, Node |-> node, Pos |-> pos, Size |-> size, Vars |-> vs]

\* the nil *Context that Simplify evaluates literals in
NilContext == [isNil |-> TRUE]

\* the nil Variables
NilVars == [isNil |-> TRUE]

\* a VariableMap binding the variable v to val (NilV: the map has no v)
VariableMap(val) == [isNil |-> FALSE, v |-> val]

\* VariableMap.Eval
VarsEval(vs, name) == IF name = <<"", "v">> THEN vs.v ELSE NilV

\* v.(T): a failed type assertion is a runtime.Error
AssertT(v, t) ==
    IF IsPanic(v) THEN v ELSE IF v.t = t THEN v ELSE Panic("runtime")

\* the first panic among the values vs, or NilV
FirstPanicV(vs) ==
    IF \E i \in 1 .. Len(vs) : IsPanic(vs[i])
    THEN vs[CHOOSE i \in 1 .. Len(vs) :
                IsPanic(vs[i]) /\ \A j \in 1 .. i - 1 : ~ IsPanic(vs[j])]
    ELSE NilV

\* the elements of s whose index is in keep, in order
RECURSIVE Select(_, _)
Select(s, keep) ==
    IF s = <<>> THEN <<>>
    ELSE Select(Front(s), keep) \o (IF Len(s) \in keep THEN <<Last(s)>> ELSE <<>>)

\* int(f): truncation towards zero
Trunc(n) == IF n >= 0 THEN n \div Scale ELSE 0 - ((0 - n) \div Scale)

Floor(n) == n - (n % Scale)

\* ==, != on two interface{} values
equalityOp(op, v1, v2) ==
    LET eq == /\ v1.t = v2.t
              /\ IF v1.t = "num" THEN ~ v1.nan /\ ~ v2.nan /\ v1.n = v2.n
                 ELSE v1 = v2
    IN  IF op = "=" THEN eq ELSE ~ eq

relationalOp(op, v1, v2) ==
    /\ ~ v1.nan
    /\ ~ v2.nan
    /\ CASE op = "<" -> v1.n < v2.n
         [] op = "<=" -> v1.n <= v2.n
         [] op = ">" -> v1.n > v2.n
         [] op = ">=" -> v1.n >= v2.n

arithmeticOp(op, x, y) ==
    IF x.nan \/ y.nan THEN NaN
    ELSE IF op = "+" THEN NumV(x.n + y.n)
    ELSE NumV(x.n - y.n)

\* the node test closure applied to n
Test(t, n) ==
    CASE t.type = "node" -> TRUE
      [] t.type = "text" -> KindOf(n) = "text"
      [] t.type = "comment" -> KindOf(n) = "comment"
      [] t.axis = "attribute" ->
            IF t.Local = "*" /\ t.uri = "" THEN TRUE
            ELSE /\ KindOf(n) = "attr"
                 /\ t.uri = ""
                 /\ t.Local \in {"*", DocName[n.own + 1]}
      [] t.axis = "namespace" ->
            IF t.Prefix = "" /\ t.Local = "*" THEN TRUE
            ELSE KindOf(n) = "ns" /\ t.uri = "" /\ n.pfx = t.Local
      [] OTHER ->
            /\ KindOf(n) = "elem"
            /\ t.uri = ""
            /\ t.Local \in {"*", DocName[n.own + 1]}

\* ctx.Document(): climbs with Parent; a nil node is a nil dereference
RECURSIVE Document(_)
Document(n) ==
    IF IsNil(n) THEN Panic("runtime")
    ELSE IF KindOf(n) = "doc" THEN NodeSetV(<<n>>)
    ELSE Document(Parent(n))

\* a name as the Go string a function returns
NameChars(name) ==
    CASE name = "" -> <<>>
      [] name = "xml" -> <<"x", "m", "l">>
      [] OTHER -> <<name>>

\* Element.Local, Attr.Local, NameSpace.Prefix, "" for the rest
LocalOf(n) ==
    CASE KindOf(n) \in {"elem", "attr"} -> NameChars(DocName[n.own + 1])
      [] KindOf(n) = "ns" -> NameChars(n.pfx)
      [] OTHER -> <<>>

\* the function a user registered, applied to the evaluated arguments
ApplyImpl(impl, args) ==
    CASE impl = <<"ux", "echo">> -> args[1]
      [] impl = <<"ux", "nodes">> -> NodeSetV(<<N(1)>>)
      [] impl = <<"ux", "int">> -> OtherV
      \* the entries under core names return ""
      [] impl[1] = "" -> StrV(<<>>)
      \* the functions of "us" return the []interface{} they received
      [] impl[1] = "us" -> [t |-> "other", args |-> args]

\* both operands evaluated before the test: what logicalExpr.Eval does not do
logicalEvalBoth(skipValue, lhs, rhs) ==
    IF IsPanic(lhs) THEN lhs
    ELSE IF IsPanic(rhs) THEN rhs
    ELSE IF lhs.t = "bool" /\ lhs.b = skipValue THEN BoolV(skipValue)
    ELSE rhs

\* logicalExpr.Eval, given the value or panic of each operand: rhs stands for
\* e.rhs.Eval(ctx), which is looked at only when lhs is not the skip value
logicalEval(skipValue, lhs, rhs) ==
    IF IsPanic(lhs) THEN lhs
    ELSE IF lhs.t = "bool" /\ lhs.b = skipValue THEN BoolV(skipValue)
    ELSE rhs

RECURSIVE Eval(_, _, _, _)
RECURSIVE predicatesEval(_, _, _, _, _)
RECURSIVE stepEvalFrom(_, _, _, _, _, _)
RECURSIVE stepsEval(_, _, _, _, _, _)

KeepsNext(pval, pos) ==
    IF pval.t = "num" THEN BoolV(~ pval.nan /\ pos = Trunc(pval.n) + 1)
    ELSE Value2Boolean(pval)

\* whether the node at position pos stays, given the value of the predicate
Keeps(pval, pos) ==
    IF pval.t = "num" THEN BoolV(~ pval.nan /\ pos = Trunc(pval.n))
    ELSE Value2Boolean(pval)

\* pr: the nodes of ns whose test is true, or the first panic of a test
Kept(ns, test) ==
    IF FirstPanicV(test) # NilV THEN FirstPanicV(test)
    ELSE NodeSetV(Select(ns, {i \in 1 .. Len(ns) : test[i].b}))

\* one predicate over the node list ns: the kept nodes, or the first panic
predicateEval(predicate, ns, vs, site, flip) ==
    Kept(ns, [i \in 1 .. Len(ns) |->
                Keeps(Eval(predicate, Context(ns[i], i, Len(ns), vs),
                           site \o <<i>>, flip), i)])

\* predicates.eval, from the q-th predicate on; r is ns so far, or a panic
predicatesEval(p, q, r, vs, sf) ==
    IF IsPanic(r) \/ q > Len(p) THEN r
    ELSE predicatesEval(p, q + 1,
             predicateEval(p[q], r.ns, vs, sf.site \o <<q>>, sf.flip), vs, sf)

\* cr before the predicates: the nodes of the iterator that are not yet in
\* unique and pass the test
Accepted(s, it, unique) ==
    Select(it, {i \in 1 .. Len(it) :
                    /\ it[i] \notin unique
                    /\ \A h \in 1 .. i - 1 : it[h] # it[i]
                    /\ Test(s.test, it[i])})

\* r = append(r, cr...); the accepted nodes are now keys of unique
Appended(acc, accepted, cr) ==
    IF IsPanic(cr) THEN cr
    ELSE [t |-> "acc", r |-> acc.r \o cr.ns,
          unique |-> acc.unique \cup Range(accepted)]

\* the body of the loop of step.eval, once the iterator has been drained
stepEvalNode(s, acc, accepted, vs, sf) ==
    Appended(acc, accepted,
             predicatesEval(s.predicates, 1, NodeSetV(accepted), vs, sf))

\* the loop of step.eval from the j-th context node on; acc holds r and
\* unique so far, or is a panic
stepEvalFrom(s, ctx, j, acc, vs, sf) ==
    IF IsPanic(acc) THEN acc
    ELSE IF j > Len(ctx) THEN NodeSetV(IF s.reverse THEN Reverse(acc.r) ELSE acc.r)
    ELSE IF AxisPanics(s.iter, ctx[j]) THEN Panic("runtime")
    ELSE stepEvalFrom(s, ctx, j + 1,
             stepEvalNode(s, acc,
                 Accepted(s, AxisNodes(s.iter, ctx[j], sf.site \o <<j>>, sf.flip),
                          acc.unique),
                 vs, [site |-> sf.site \o <<j>>, flip |-> sf.flip]),
             vs, sf)

\* the loop over the steps in locationPath.evalWith, from the i-th step on;
\* r is ns so far, or a panic
stepsEval(steps, i, r, vs, site, flip) ==
    IF IsPanic(r) \/ i > Len(steps) THEN r
    ELSE stepsEval(steps, i + 1,
             stepEvalFrom(steps[i], r.ns, 1, [t |-> "acc", r |-> <<>>, unique |-> {}],
                          vs, [site |-> site \o <<i>>, flip |-> flip]),
             vs, site, flip)

\* order(ns) if orderReqd
Ordered(orderReqd, r) ==
    IF IsPanic(r) THEN r
    ELSE IF orderReqd THEN NodeSetV(order(r.ns))
    ELSE r

evalWith(e, ns, ctx, site, flip) ==
    Ordered(Len(ns) > 1 \/ Len(e.steps) > 1,
            stepsEval(e.steps, 1, NodeSetV(ns), ctx.Vars, site, flip))

unionEval(l, r) ==
    LET lhs == AssertT(l, "ns")
        rhs == AssertT(r, "ns")
    IN  IF IsPanic(lhs) THEN lhs
        ELSE IF IsPanic(rhs) THEN rhs
        ELSE IF Len(lhs.ns) = 0 THEN rhs
        ELSE IF Len(rhs.ns) = 0 THEN lhs
        ELSE NodeSetV(order(lhs.ns \o SelectSeq(rhs.ns,
                                LAMBDA n : n \notin Range(lhs.ns))))

\* variable.Eval without its node-set check (an ablation for C10)
variableEvalUnchecked(v, ctx) ==
    IF ctx.isNil THEN Panic("runtime")
    ELSE IF ctx.Vars.isNil THEN Panic("UnresolvedVariable")
    ELSE LET r == VarsEval(ctx.Vars, v.name)
         IN  IF r = NilV THEN Panic("UnresolvedVariable")
             ELSE IF TypeOfPanics(r) THEN Panic("InvalidValue")
             ELSE r

variableEval(v, ctx) ==
    IF ctx.isNil THEN Panic("runtime")
    ELSE IF ctx.Vars.isNil THEN Panic("UnresolvedVariable")
    ELSE LET r == VarsEval(ctx.Vars, v.name)
         IN  IF r = NilV THEN Panic("UnresolvedVariable")
             ELSE IF v.returns = NodeSet /\ r.t # "ns" THEN Panic("VarMustBeNodeSet")
             ELSE IF TypeOfPanics(r) THEN Panic("InvalidValue")
             ELSE r

equalityEval(op, lhs, rhs) ==
    IF IsPanic(lhs) THEN lhs
    ELSE IF IsPanic(rhs) THEN rhs
    ELSE IF TypeOfPanics(lhs) \/ TypeOfPanics(rhs) THEN Panic("InvalidValue")
    ELSE IF lhs.t = "ns" /\ rhs.t = "ns"
    THEN BoolV(\E i \in 1 .. Len(lhs.ns), j \in 1 .. Len(rhs.ns) :
                equalityOp(op, StrV(Node2String(lhs.ns[i])),
                           StrV(Node2String(rhs.ns[j]))))
    ELSE IF lhs.t # "ns" /\ rhs.t # "ns"
    THEN IF lhs.t = "bool" \/ rhs.t = "bool"
         THEN BoolV(equalityOp(op, Value2Boolean(lhs), Value2Boolean(rhs)))
         ELSE IF lhs.t = "num" \/ rhs.t = "num"
         THEN BoolV(equalityOp(op, Value2Number(lhs), Value2Number(rhs)))
         ELSE BoolV(equalityOp(op, Value2String(lhs), Value2String(rhs)))
    ELSE LET val == IF lhs.t = "ns" THEN rhs ELSE lhs
             nodeSet == IF lhs.t = "ns" THEN lhs.ns ELSE rhs.ns
         IN  IF val.t = "bool"
             THEN BoolV(equalityOp(op, val, Value2Boolean(NodeSetV(nodeSet))))
             ELSE IF val.t = "str"
             THEN BoolV(\E i \in 1 .. Len(nodeSet) :
                            equalityOp(op, val, StrV(Node2String(nodeSet[i]))))
             ELSE BoolV(\E i \in 1 .. Len(nodeSet) :
                            equalityOp(op, val, Node2Number(nodeSet[i])))

relationalEval(op, lhs, rhs) ==
    IF IsPanic(lhs) THEN lhs
    ELSE IF IsPanic(rhs) THEN rhs
    ELSE IF TypeOfPanics(lhs) \/ TypeOfPanics(rhs) THEN Panic("InvalidValue")
    ELSE IF lhs.t = "ns" /\ rhs.t = "ns"
    THEN BoolV(\E i \in 1 .. Len(lhs.ns), j \in 1 .. Len(rhs.ns) :
                relationalOp(op, Node2Number(lhs.ns[i]), Node2Number(rhs.ns[j])))
    ELSE IF lhs.t # "ns" /\ rhs.t # "ns"
    THEN BoolV(relationalOp(op, Value2Number(lhs), Value2Number(rhs)))
    ELSE IF lhs.t = "ns"
    THEN BoolV(\E i \in 1 .. Len(lhs.ns) :
                relationalOp(op, Node2Number(lhs.ns[i]), Value2Number(rhs)))
    ELSE BoolV(\E i \in 1 .. Len(rhs.ns) :
                relationalOp(op, Value2Number(lhs), Node2Number(rhs.ns[i])))

RECURSIVE sumFrom(_, _)
sumFrom(ns, r) ==
    IF ns = <<>> THEN r
    ELSE sumFrom(Tail(ns), arithmeticOp("+", r, Node2Number(Head(ns))))

\* the core functions whose arguments the compiler has typed; a holds the
\* evaluated arguments, in the order the code evaluates them
coreEval(type, a, ctx) ==
    LET arg(i, t) == AssertT(a[i], t)
        t1 == CASE type \in {"count", "sum", "localName", "qname", "namespaceURI"} -> "ns"
                [] type \in {"floor", "ceiling", "round"} -> "num"
                [] type = "not" -> "bool"
                [] OTHER -> "str"
        checked == [i \in 1 .. Len(a) |-> arg(i, t1)]
    IN  IF FirstPanicV(checked) # NilV THEN FirstPanicV(checked)
        ELSE CASE type = "count" -> Int2Num(Len(a[1].ns))
               [] type = "sum" -> sumFrom(a[1].ns, Int2Num(0))
               [] type \in {"localName", "qname"} ->
                    StrV(IF a[1].ns = <<>> THEN <<>> ELSE LocalOf(a[1].ns[1]))
               [] type = "namespaceURI" -> StrV(<<>>)
               [] type = "floor" -> IF a[1].nan THEN NaN ELSE NumV(Floor(a[1].n))
               [] type = "ceiling" ->
                    IF a[1].nan THEN NaN ELSE NumV(0 - Floor(0 - a[1].n))
               [] type = "round" ->
                    IF a[1].nan THEN NaN
                    ELSE IF a[1].n * 2 # Scale THEN NumV(Floor(a[1].n + Scale \div 2))
                    ELSE Int2Num(0)
               [] type = "not" -> BoolV(~ a[1].b)
               [] type = "stringLength" -> Int2Num(Len(a[1].s))
               [] type = "startsWith" ->
                    BoolV(/\ Len(a[2].s) <= Len(a[1].s)
                          /\ SubSeq(a[1].s, 1, Len(a[2].s)) = a[2].s)
               [] type = "concat" ->
                    StrV(Flatten([i \in 1 .. Len(a) |-> a[i].s]))

Eval(e, ctx, site, flip) ==
    CASE e.k \in {"numberVal", "stringVal", "booleanVal"} -> e.v
      [] e.k = "ContextExpr" ->
            IF ctx.isNil THEN Panic("runtime") ELSE NodeSetV(<<ctx.Node>>)
      [] e.k = "negateExpr" ->
            LET v == AssertT(Eval(e.arg, ctx, site, flip), "num")
            IN  IF IsPanic(v) \/ v.nan THEN v ELSE NumV(0 - v.n)
      [] e.k = "arithmeticExpr" ->
            LET lhs == AssertT(Eval(e.lhs, ctx, site \o <<1>>, flip), "num")
                rhs == AssertT(Eval(e.rhs, ctx, site \o <<2>>, flip), "num")
            IN  IF IsPanic(lhs) THEN lhs
                ELSE IF IsPanic(rhs) THEN rhs
                ELSE arithmeticOp(e.apply, lhs, rhs)
      [] e.k = "equalityExpr" ->
            equalityEval(e.apply, Eval(e.lhs, ctx, site \o <<1>>, flip),
                         Eval(e.rhs, ctx, site \o <<2>>, flip))
      [] e.k = "relationalExpr" ->
            relationalEval(e.apply, Eval(e.lhs, ctx, site \o <<1>>, flip),
                           Eval(e.rhs, ctx, site \o <<2>>, flip))
      [] e.k = "logicalExpr" ->
            logicalEval(e.skipValue, Eval(e.lhs, ctx, site \o <<1>>, flip),
                        Eval(e.rhs, ctx, site \o <<2>>, flip))
      [] e.k = "unionExpr" ->
            LET lhs == AssertT(Eval(e.lhs, ctx, site \o <<1>>, flip), "ns")
            IN  IF IsPanic(lhs) THEN lhs
                ELSE unionEval(lhs, Eval(e.rhs, ctx, site \o <<2>>, flip))
      [] e.k = "locationPath" ->
            IF ctx.isNil THEN Panic("runtime")
            ELSE LET ns == IF e.abs THEN Document(ctx.Node) ELSE NodeSetV(<<ctx.Node>>)
                 IN  IF IsPanic(ns) THEN ns ELSE evalWith(e, ns.ns, ctx, site, flip)
      [] e.k = "filterExpr" ->
            LET ns == AssertT(Eval(e.expr, ctx, site \o <<1>>, flip), "ns")
            IN  IF IsPanic(ns) THEN ns
                ELSE IF ctx.isNil THEN Panic("runtime")
                ELSE predicatesEval(e.predicates, 1, ns, ctx.Vars,
                                    [site |-> site \o <<2>>, flip |-> flip])
      [] e.k = "pathExpr" ->
            LET ns == AssertT(Eval(e.filter, ctx, site \o <<1>>, flip), "ns")
            IN  IF IsPanic(ns) THEN ns
                ELSE IF ctx.isNil THEN Panic("runtime")
                ELSE evalWith(e.locationPath, ns.ns, ctx, site \o <<2>>, flip)
      [] e.k = "variable" -> variableEval(e, ctx)
      [] e.k = "funcCall" ->
            LET args == [i \in 1 .. Len(e.args) |->
                            Eval(e.args[i], ctx, site \o <<i>>, flip)]
            IN  IF FirstPanicV(args) # NilV THEN FirstPanicV(args)
                ELSE ApplyImpl(e.impl, args)
      [] e.k = "stringFunc" -> Value2String(Eval(e.args[1], ctx, site, flip))
      [] e.k = "numberFunc" -> Value2Number(Eval(e.args[1], ctx, site, flip))
      [] e.k = "booleanFunc" -> Value2Boolean(Eval(e.args[1], ctx, site, flip))
      [] e.k = "position" ->
            IF ctx.isNil THEN Panic("runtime") ELSE Int2Num(ctx.Pos)
      [] e.k = "last" ->
            IF ctx.isNil THEN Panic("runtime") ELSE Int2Num(ctx.Size)
      [] e.k \in {"count", "sum", "localName", "qname", "namespaceURI", "floor",
                  "ceiling", "round", "not", "stringLength", "startsWith",
                  "concat"} ->
            coreEval(e.k, [i \in 1 .. Len(e.args) |->
                              Eval(e.args[i], ctx, site \o <<i>>, flip)], ctx)
      [] OTHER -> Unrepresentable

(***************************************************************************)
(* Static simplification.                                                  *)
(***************************************************************************)
\* the expression types that have a Simplify method folding literal operands
FoldingTypes ==
    {"funcCall", "stringFunc", "numberFunc", "booleanFunc", "normalizeSpace",
     "startsWith", "endsWith", "contains", "stringLength", "concat", "translate",
     "substringBefore", "substringAfter", "substring", "not", "floor", "ceiling",
     "round"}

\* Value2Expr(e.Eval(nil))
Fold(e) == Value2Expr(Eval(e, NilContext, <<>>, FALSE))

RECURSIVE Simplify(_)
SimplifyAll(es) == [i \in 1 .. Len(es) |-> Simplify(es[i])]

SimplifyStep(s) ==
    LET ps == SimplifyAll(s.predicates)
    IN  IF FirstPanic(ps) # NilExpr THEN FirstPanic(ps)
        ELSE [s EXCEPT !.predicates = ps]

SimplifyLogical(e, lhs, rhs) ==
    IF Literals(<<lhs>>)
    THEN IF Eval(lhs, NilContext, <<>>, FALSE) = BoolV(e.skipValue)
         THEN booleanVal(e.skipValue)
         ELSE rhs
    ELSE IF Literals(<<rhs>>)
    THEN IF Eval(rhs, NilContext, <<>>, FALSE) = BoolV(e.skipValue)
         THEN booleanVal(e.skipValue)
         ELSE lhs
    ELSE [e EXCEPT !.lhs = lhs, !.rhs = rhs]

Simplify(e) ==
    CASE e.k \in {"arithmeticExpr", "equalityExpr", "relationalExpr", "logicalExpr"} ->
            LET lhs == Simplify(e.lhs)
                rhs == Simplify(e.rhs)
                s == [e EXCEPT !.lhs = lhs, !.rhs = rhs]
            IN  IF IsPanicE(lhs) THEN lhs
                ELSE IF IsPanicE(rhs) THEN rhs
                ELSE IF e.k = "logicalExpr" THEN SimplifyLogical(e, lhs, rhs)
                ELSE IF Literals(<<lhs, rhs>>) THEN Fold(s)
                ELSE s
      [] e.k = "locationPath" ->
            LET steps == [i \in 1 .. Len(e.steps) |-> SimplifyStep(e.steps[i])]
            IN  IF FirstPanic(steps) # NilExpr THEN FirstPanic(steps)
                ELSE [e EXCEPT !.steps = steps]
      [] e.k = "filterExpr" ->
            LET expr == Simplify(e.expr)
                ps == SimplifyAll(e.predicates)
            IN  IF IsPanicE(expr) THEN expr
                ELSE IF FirstPanic(ps) # NilExpr THEN FirstPanic(ps)
                ELSE [e EXCEPT !.expr = expr, !.predicates = ps]
      [] e.k = "pathExpr" ->
            LET filter == Simplify(e.filter)
                lp == Simplify(e.locationPath)
            IN  IF IsPanicE(filter) THEN filter
                ELSE IF IsPanicE(lp) THEN lp
                ELSE [e EXCEPT !.filter = filter, !.locationPath = lp]
      [] e.k \in FoldingTypes ->
            LET args == SimplifyAll(e.args)
                s == [e EXCEPT !.args = args]
            IN  IF FirstPanic(args) # NilExpr THEN FirstPanic(args)
                ELSE IF Literals(args) THEN Fold(s)
                ELSE s
      [] OTHER -> e

(***************************************************************************)
(* The public API.  What a call gives back is a record: kind "ok" with the *)
(* compiled expression, kind "value" with the value, kind "error" with the *)
(* error, or kind "crash" when a panic leaves the call.                    *)
(***************************************************************************)
\* panic2error(recover(), &err) for the panic p
panic2error(p) ==
    IF p = "runtime" THEN [kind |-> "crash"] ELSE [kind |-> "error", err |-> p]

\* Compiler.Compile, after the parser
Recovered(expr) ==
    IF IsPanicE(expr) THEN panic2error(expr.p) ELSE [kind |-> "ok", expr |-> expr]

\* Simplify(c.compile(expr)); a panic of compile skips Simplify
Simplified(x) == IF IsPanicE(x) THEN x ELSE Simplify(x)

Compile(c, e) == Recovered(Simplified(compile(c, e)))

IsStatic(x) == Literals(<<x.expr>>)

\* what XPath.Eval gives back for the value or panic r of the expression
Returned(r) ==
    IF IsPanic(r) THEN panic2error(r.p) ELSE [kind |-> "value", v |-> r]

XPathEval(x, n, vs, flip) ==
    Returned(Eval(x.expr, Context(n, 0, 1, vs), <<>>, flip))

\* EvalString, EvalNumber, EvalBoolean: the conversion runs after Eval has
\* returned, outside its recover
Converted(r, v) ==
    IF r.kind # "value" THEN r
    ELSE IF IsPanic(v) THEN [kind |-> "crash"]
    ELSE [kind |-> "value", v |-> v]

ConvertedString(r) == Converted(r, Value2String(r.v))

ConvertedNumber(r) == Converted(r, Value2Number(r.v))

ConvertedBoolean(r) == Converted(r, Value2Boolean(r.v))

EvalString(x, n, vs, flip) == ConvertedString(XPathEval(x, n, vs, flip))

EvalNumber(x, n, vs, flip) == ConvertedNumber(XPathEval(x, n, vs, flip))

EvalBoolean(x, n, vs, flip) == ConvertedBoolean(XPathEval(x, n, vs, flip))

\* the end of EvalNodeSet, r being what Eval gave back
ConvertedNodeSet(r) ==
    IF r.kind # "value" \/ r.v.t = "ns" THEN r
    \* TypeOf(r) panics outside Eval's recover on a value of no XPath type
    ELSE IF TypeOfPanics(r.v) THEN [kind |-> "crash"]
    ELSE [kind |-> "error", err |-> "Conversion"]

EvalNodeSet(x, n, vs, flip) ==
    IF Returns(x.expr) \notin {NodeSet, Unknown} THEN [kind |-> "error", err |-> "Conversion"]
    ELSE ConvertedNodeSet(XPathEval(x, n, vs, flip))

(***************************************************************************)
(* The inputs of a client: expressions, compilers, context nodes and       *)
(* variable bindings.                                                      *)
(***************************************************************************)
V == VarRef("", "v")

Position == FuncCall("", "position", <<>>)

LastCall == FuncCall("", "last", <<>>)

True == FuncCall("", "true", <<>>)

One == Num(Scale)

Path(steps) == LocationPath(FALSE, steps)

AxisStep(axis) == Step(axis, NodeType("node"), <<>>)

Tests == {NodeType("node"), NameTest("", "*")}

OneStepPaths == {Path(<<Step(a, t, <<>>)>>) : a \in Axes, t \in Tests}

PredicatePaths ==
    {Path(<<Step(a, NodeType("node"), <<p>>)>>) :
        a \in {"child", "descendant", "ancestor-or-self", "attribute"},
        p \in {One, Bin("=", Position, LastCall)}}

\* the positions asked for: below 1, inside and beyond the longest node list
PositionKs == {Negate(One), Num(0), One, Num(2 * Scale), Num(3 * Scale), Num(5 * Scale)}

\* [k] and [position()=k] on one step
PositionPaths ==
    {Path(<<Step(a, t, <<p>>)>>) :
        a \in {"child", "descendant", "ancestor-or-self", "attribute", "namespace",
               "preceding-sibling"},
        t \in Tests,
        p \in PositionKs \cup {Bin("=", Position, k) : k \in PositionKs}}

\* [i] with a number i that is no whole number: 0.5, 1.5, 2.5
FractionPaths ==
    {Path(<<Step(a, NodeType("node"), <<Num(k * Scale + Scale \div 2)>>)>>) :
        a \in {"child", "descendant", "ancestor-or-self"}, k \in 0 .. 2}

TwoStepPaths ==
    {LocationPath(abs, <<AxisStep(a1), AxisStep(a2)>>) :
        abs \in BOOLEAN, a1 \in {"descendant-or-self", "child"},
        a2 \in {"child", "attribute", "namespace", "parent"}}

\* a second step with a predicate, applied to the nodes of a first step
PredicatedTwoStepPaths ==
    {Path(<<AxisStep(a1), Step(a2, NodeType("node"), <<p>>)>>) :
        a1 \in {"descendant-or-self", "child"},
        a2 \in {"ancestor-or-self", "parent", "following-sibling", "child"},
        p \in {One, Num(2 * Scale), Bin("=", Position, LastCall)}}

UnionOperands ==
    {Path(<<AxisStep("child")>>), Path(<<AxisStep("attribute")>>),
     Path(<<AxisStep("parent")>>), V}

Unions == {Bin("|", l, r) : l, r \in UnionOperands}

Filters ==
    {FilterExpr(V, <<One>>), FilterExpr(V, <<Bin("=", Position, LastCall)>>),
     FilterExpr(Path(<<AxisStep("child")>>), <<One>>),
     PathExpr(V, Path(<<AxisStep("child")>>)),
     PathExpr(FilterExpr(V, <<One>>), Path(<<AxisStep("attribute")>>))}

LiteralExprs == {One, Num(Scale + Scale \div 2), Str(<<>>), Str(<<"a">>), Str(<<"1">>)}

\* expressions over literals only
StaticExprs ==
    LiteralExprs
    \cup {Bin(op, a, b) : op \in {"+", "=", "<", "and", "or"},
                          a, b \in {One, Str(<<>>), Str(<<"a">>)}}
    \cup {Negate(a) : a \in LiteralExprs}
    \cup {Bin("-", One, Negate(One)), Bin("and", True, Negate(One)),
          True, FuncCall("", "false", <<>>),
          FuncCall("", "string", <<One>>), FuncCall("", "number", <<Str(<<"a">>)>>),
          FuncCall("", "boolean", <<Str(<<>>)>>), FuncCall("", "not", <<True>>),
          FuncCall("", "concat", <<Str(<<"a">>), One>>),
          FuncCall("", "floor", <<Num(Scale + Scale \div 2)>>),
          FuncCall("", "round", <<Num(Scale \div 2)>>),
          FuncCall("", "string-length", <<Str(<<"a">>)>>),
          FuncCall("", "starts-with", <<Str(<<"a">>), Str(<<>>)>>),
          FuncCall("x", "echo", <<Str(<<"a">>)>>), FuncCall("x", "echo", <<One>>),
          FuncCall("x", "nodes", <<>>)}

\* expressions that consult the context
DynamicExprs ==
    {V, Negate(V), Bin("+", V, One), Bin("=", V, One), Bin("and", V, True),
     Bin("or", True, V), Position, LastCall,
     FuncCall("", "count", <<V>>), FuncCall("", "count", <<Path(<<AxisStep("child")>>)>>),
     FuncCall("", "sum", <<Path(<<AxisStep("attribute")>>)>>),
     FuncCall("", "string", <<>>), FuncCall("", "string", <<V>>),
     FuncCall("", "number", <<V>>), FuncCall("", "boolean", <<V>>),
     FuncCall("", "name", <<>>), FuncCall("", "local-name", <<V>>),
     FuncCall("x", "echo", <<Position>>), FuncCall("x", "echo", <<V>>),
     FuncCall("x", "int", <<Position>>),
     FuncCall("", "string", <<FuncCall("x", "int", <<Position>>)>>),
     Bin("=", Path(<<AxisStep("attribute")>>), One),
     Bin("<", Path(<<AxisStep("child")>>), Str(<<"a">>)),
     Bin(">=", Str(<<"a">>), Path(<<AxisStep("child")>>)),
     Bin("<", Path(<<AxisStep("child")>>), One)}

Exprs ==
    OneStepPaths \cup PredicatePaths \cup PositionPaths \cup TwoStepPaths
        \cup PredicatedTwoStepPaths \cup FractionPaths
        \cup Unions \cup Filters
        \cup StaticExprs \cup DynamicExprs

\* a Compiler with a FunctionMap, and one whose Functions field is nil
WithFunctions == [Namespaces |-> [x |-> "ux", s |-> "us"], Functions |-> TRUE]

NoFunctions == [Namespaces |-> [x |-> "ux", s |-> "us"], Functions |-> FALSE]

ContextNodes == DocNodes \cup {Nil}

\* node-sets a caller binds are in document order
VarBindings ==
    {NilVars, VariableMap(NilV), VariableMap(NodeSetV(<<>>)),
     VariableMap(NodeSetV(<<N(2), N(4)>>)), VariableMap(StrV(<<"a">>)),
     VariableMap(NumV(Scale)), VariableMap(BoolV(TRUE)), VariableMap(OtherV)}

(***************************************************************************)
(* A client compiles one expression and evaluates it once.                 *)
(***************************************************************************)
None == [kind |-> "none"]

Init ==
    /\ pc = "parse"
    /\ cfg = WithFunctions
    /\ ast = NilExpr
    /\ xp = None
    /\ ctxNode = Nil
    /\ vars = NilVars
    /\ mapFlip = FALSE
    /\ result = None
    /\ mem = <<>>
    /\ gr = <<>>
    /\ written = {}

\* xpath.Parse has produced e for the compiler c
Parse(c, e) ==
    /\ pc = "parse"
    /\ pc' = "compile"
    /\ cfg' = c
    /\ ast' = e
    /\ UNCHANGED <<xp, ctxNode, vars, mapFlip, result>>
    /\ UNCHANGED concVars

DoCompile ==
    /\ pc = "compile"
    /\ xp' = Compile(cfg, ast)
    /\ pc' = IF xp'.kind = "ok" THEN "eval" ELSE "done"
    /\ UNCHANGED <<cfg, ast, ctxNode, vars, mapFlip, result>>
    /\ UNCHANGED concVars

\* one call of the API on the compiled expression
Call(api, r, n, vs, flip) ==
    /\ pc = "eval"
    /\ pc' = "done"
    /\ ctxNode' = n
    /\ vars' = vs
    /\ mapFlip' = flip
    /\ result' = [api |-> api, r |-> r]
    /\ UNCHANGED <<cfg, ast, xp>>
    /\ UNCHANGED concVars

DoEval ==
    \E n \in ContextNodes, vs \in VarBindings, flip \in BOOLEAN :
        Call("Eval", XPathEval(xp, n, vs, flip), n, vs, flip)

DoEvalNodeSet ==
    \E n \in ContextNodes, vs \in VarBindings, flip \in BOOLEAN :
        Call("EvalNodeSet", EvalNodeSet(xp, n, vs, flip), n, vs, flip)

DoEvalString ==
    \E n \in ContextNodes, vs \in VarBindings, flip \in BOOLEAN :
        Call("EvalString", EvalString(xp, n, vs, flip), n, vs, flip)

DoEvalNumber ==
    \E n \in ContextNodes, vs \in VarBindings, flip \in BOOLEAN :
        Call("EvalNumber", EvalNumber(xp, n, vs, flip), n, vs, flip)

DoEvalBoolean ==
    \E n \in ContextNodes, vs \in VarBindings, flip \in BOOLEAN :
        Call("EvalBoolean", EvalBoolean(xp, n, vs, flip), n, vs, flip)

ParseExpr ==
    \E e \in Exprs : Parse(WithFunctions, e)

Next ==
    \/ ParseExpr
    \/ DoCompile
    \/ DoEval
    \/ DoEvalNodeSet
    \/ DoEvalString
    \/ DoEvalNumber
    \/ DoEvalBoolean

Spec == Init /\ [][Next]_vars_all

(***************************************************************************)
(* A client that only compiles function calls: every function name with    *)
(* every argument count up to MaxArgs, under both compilers.  The          *)
(* arguments are variable references, which every argument type accepts.   *)
(***************************************************************************)
MaxArgs == 4

CallNames ==
    {<<"", n[2]>> : n \in CoreNames}
        \cup {<<"", "foo">>, <<"x", "echo">>, <<"x", "nodes">>, <<"x", "int">>,
              <<"x", "sig">>, <<"x", "foo">>}

CallExprs ==
    {FuncCall(f[1], f[2], [i \in 1 .. n |-> V]) : f \in CallNames, n \in 0 .. MaxArgs}

ParseCall ==
    \E c \in {WithFunctions, NoFunctions}, e \in CallExprs : Parse(c, e)

NextCompile ==
    \/ ParseCall
    \/ DoCompile

SpecCompile == Init /\ [][NextCompile]_vars_all

(***************************************************************************)
(* A client that compiles calls of the functions registered in "us": every *)
(* signature of up to MaxSig entries, with every argument count up to      *)
(* MaxArgs.                                                                *)
(***************************************************************************)
MaxSig == 3

Signatures ==
    UNION {[1 .. n -> {Mandatory(String), Optional(String), Variadic(String)}] :
              n \in 0 .. MaxSig}

SignatureCalls ==
    {FuncCall("s", a, [i \in 1 .. n |-> V]) : a \in Signatures, n \in 0 .. MaxArgs}

ParseSignatureCall == \E e \in SignatureCalls : Parse(WithFunctions, e)

NextSignature ==
    \/ ParseSignatureCall
    \/ DoCompile

SpecSignature == Init /\ [][NextSignature]_vars_all

(***************************************************************************)
(* A client that calls functions of "us" with typed signatures and up to   *)
(* MaxCallArgs arguments, and evaluates the call once.                     *)
(***************************************************************************)
MaxCallArgs == 3

TypedSignatures ==
    {<<Mandatory(String), Variadic(Number)>>,
     <<Mandatory(Boolean), Optional(Unknown), Variadic(String)>>,
     <<Variadic(NodeSet)>>,
     <<Optional(Number), Optional(Boolean)>>}

ArgExprs == {V, Position, One, Path(<<AxisStep("child")>>)}

TypedCalls ==
    {FuncCall("s", a, args) :
        a \in TypedSignatures,
        args \in UNION {[1 .. n -> ArgExprs] : n \in 0 .. MaxCallArgs}}

ParseTypedCall == \E e \in TypedCalls : Parse(WithFunctions, e)

NextCall ==
    \/ ParseTypedCall
    \/ DoCompile
    \/ DoEval

SpecCall == Init /\ [][NextCall]_vars_all

(***************************************************************************)
(* A client that evaluates steps on the reverse axes: with a position      *)
(* predicate on the step, and with the predicate on the parenthesised      *)
(* path.                                                                   *)
(***************************************************************************)
Two == Num(2 * Scale)

ReverseAxisNames == {"ancestor", "ancestor-or-self", "preceding", "preceding-sibling"}

FirstTwo == Bin("<", Position, Num(3 * Scale))

ReverseSteps ==
    {Path(<<Step(a, NodeType("node"), <<p>>)>>) :
        a \in ReverseAxisNames, p \in {One, Two, FirstTwo}}

ReverseFilters ==
    {FilterExpr(Path(<<AxisStep(a)>>), <<p>>) : a \in ReverseAxisNames, p \in {One, Two}}

ParseReverse == \E e \in ReverseSteps \cup ReverseFilters : Parse(WithFunctions, e)

NextReverse ==
    \/ ParseReverse
    \/ DoCompile
    \/ DoEval

SpecReverse == Init /\ [][NextReverse]_vars_all

(***************************************************************************)
(* A client that evaluates `and` and `or` over operands that are literal,  *)
(* depend on the context, or refer to a variable: $v may be bound, $w      *)
(* never is.                                                               *)
(***************************************************************************)
W == VarRef("", "w")

LogicalOperands == {V, W, True, FuncCall("", "false", <<>>), Position}

LogicalExprs ==
    {Bin(op, l, r) : op \in {"and", "or"}, l, r \in LogicalOperands}

ParseLogical == \E e \in LogicalExprs : Parse(WithFunctions, e)

NextLogical ==
    \/ ParseLogical
    \/ DoCompile
    \/ DoEval

SpecLogical == Init /\ [][NextLogical]_vars_all

(***************************************************************************)
(* Two goroutines evaluate one compiled union with the same Variables.     *)
(* A []dom.Node is a slice [shared, arr, len, cap]: the slice the caller    *)
(* bound to $v has its elements in mem (shared), every slice an evaluation *)
(* allocates has them in arr.  unionExpr.Eval is taken statement by        *)
(* statement; the evaluation of an operand is one step.                    *)
(***************************************************************************)
MaxSpare == 2

Goroutines == {1, 2}

Private(ns) == [shared |-> FALSE, arr |-> ns, len |-> Len(ns), cap |-> Len(ns)]

\* the slice VariableMap.Eval returns: the very slice the caller stored
Bound == [shared |-> TRUE, arr |-> <<>>, len |-> Len(vars.v.ns), cap |-> Len(mem)]

Contents(s) == IF s.shared THEN SubSeq(mem, 1, s.len) ELSE s.arr

\* e.Eval(ctx) of an operand of the union, as a slice
SliceOf(e, v) == IF e.k = "variable" /\ ~ IsPanic(v) THEN Bound ELSE Private(v.ns)

Operand(e, n, site) == SliceOf(e, Eval(e, Context(n, 0, 1, vars), site, mapFlip))

ConcExprs ==
    {Bin("|", V, Path(<<AxisStep("child")>>)),
     Bin("|", V, Path(<<AxisStep("attribute")>>)),
     Bin("|", Path(<<AxisStep("child")>>), V)}

ConcNodeSets == {<<>>, <<N(2)>>, <<N(4)>>, <<N(2), N(4)>>}

ConcNodes == {N(1), N(2), N(4)}

InitConc ==
    /\ pc = "go"
    /\ cfg = WithFunctions
    /\ ast \in ConcExprs
    /\ xp = Compile(cfg, ast)
    /\ ctxNode = Nil
    /\ \E ns \in ConcNodeSets, spare \in 0 .. MaxSpare :
            /\ vars = VariableMap(NodeSetV(ns))
            /\ mem = ns \o [i \in 1 .. spare |-> Nil]
    /\ mapFlip = FALSE
    /\ result = None
    /\ gr = [g \in Goroutines |-> [at |-> "idle"]]
    /\ written = {}

\* goroutine g calls Eval with context node n: the two operands are evaluated
GoEval(g, n) ==
    /\ pc = "go"
    /\ gr[g].at = "idle"
    /\ gr' = [gr EXCEPT ![g] = [at |-> "switch", node |-> n,
                                lhs |-> Operand(xp.expr.lhs, n, <<1>>),
                                rhs |-> Operand(xp.expr.rhs, n, <<2>>)]]
    /\ UNCHANGED <<pc, cfg, ast, xp, ctxNode, vars, mapFlip, result, mem, written>>

\* the switch: an empty operand returns the other; otherwise the set unique
\* is filled from lhs
GoSwitch(g) ==
    /\ pc = "go"
    /\ gr[g].at = "switch"
    /\ gr' = [gr EXCEPT ![g] =
                IF gr[g].lhs.len = 0
                THEN [at |-> "done", node |-> gr[g].node, ret |-> gr[g].rhs]
                ELSE IF gr[g].rhs.len = 0
                THEN [at |-> "done", node |-> gr[g].node, ret |-> gr[g].lhs]
                ELSE [at |-> "append", node |-> gr[g].node, lhs |-> gr[g].lhs,
                      rhs |-> gr[g].rhs, unique |-> Range(Contents(gr[g].lhs)),
                      i |-> 1]]
    /\ UNCHANGED <<pc, cfg, ast, xp, ctxNode, vars, mapFlip, result, mem, written>>

\* one round of the loop over rhs: lhs = append(lhs, n) unless n is in unique.
\* append stores into the backing array of lhs while it has capacity and
\* copies to a new array when it has none
GoAppend(g) ==
    /\ pc = "go"
    /\ gr[g].at = "append"
    /\ gr[g].i <= gr[g].rhs.len
    /\ LET l == gr[g].lhs
           n == Contents(gr[g].rhs)[gr[g].i]
           inPlace == n \notin gr[g].unique /\ l.shared /\ l.len < l.cap
           appended ==
               IF n \in gr[g].unique THEN l
               ELSE IF inPlace THEN [l EXCEPT !.len = l.len + 1]
               ELSE Private(Contents(l) \o <<n>>)
       IN  /\ gr' = [gr EXCEPT ![g].lhs = appended, ![g].i = gr[g].i + 1]
           /\ mem' = IF inPlace THEN [mem EXCEPT ![l.len + 1] = n] ELSE mem
           /\ written' = IF inPlace THEN written \cup {<<g, l.len + 1>>} ELSE written
    /\ UNCHANGED <<pc, cfg, ast, xp, ctxNode, vars, mapFlip, result>>

\* order(lhs) sorts the slice in place, and lhs is returned
GoOrder(g) ==
    /\ pc = "go"
    /\ gr[g].at = "append"
    /\ gr[g].i > gr[g].rhs.len
    /\ LET l == gr[g].lhs
           sorted == order(Contents(l))
           moved == {k \in 1 .. l.len : sorted[k] # Contents(l)[k]}
       IN  /\ gr' = [gr EXCEPT ![g] =
                       [at |-> "done", node |-> gr[g].node,
                        ret |-> IF l.shared THEN l ELSE Private(sorted)]]
           /\ mem' = IF l.shared
                     THEN [k \in 1 .. Len(mem) |-> IF k <= l.len THEN sorted[k] ELSE mem[k]]
                     ELSE mem
           /\ written' = IF l.shared THEN written \cup {<<g, k>> : k \in moved}
                         ELSE written
    /\ UNCHANGED <<pc, cfg, ast, xp, ctxNode, vars, mapFlip, result>>

\* both calls have returned: the callers read their node-sets
GoJoin ==
    /\ pc = "go"
    /\ \A g \in Goroutines : gr[g].at = "done"
    /\ pc' = "joined"
    /\ result' = [api |-> "Eval", r |-> [g \in Goroutines |-> Contents(gr[g].ret)]]
    /\ UNCHANGED <<cfg, ast, xp, ctxNode, vars, mapFlip, mem, gr, written>>

GoCall == \E g \in Goroutines, n \in ConcNodes : GoEval(g, n)

GoStepSwitch == \E g \in Goroutines : GoSwitch(g)

GoStepAppend == \E g \in Goroutines : GoAppend(g)

GoStepOrder == \E g \in Goroutines : GoOrder(g)

NextConc ==
    \/ GoCall
    \/ GoStepSwitch
    \/ GoStepAppend
    \/ GoStepOrder
    \/ GoJoin

SpecConc == InitConc /\ [][NextConc]_vars_all

(***************************************************************************)
(* A caller holds a few nodes of the document, iterates axes from them,    *)
(* compares them and sorts them.                                           *)
(***************************************************************************)
Elements == {n \in DocNodes : IsElement(n)}

\* the namespace nodes an iteration of the namespace axis creates
NamespaceNodes == UNION {Range(NamespaceAxis(e, <<>>, FALSE)) : e \in Elements}

AllNodes == DocNodes \cup NamespaceNodes

NodeLists == {<<a, b>> : a, b \in AllNodes} \cup {<<a, b, c>> : a, b, c \in AllNodes}

InitNodes ==
    /\ pc = "nodes"
    /\ cfg = WithFunctions
    /\ ast = NilExpr
    /\ xp = None
    /\ ctxNode = Nil
    /\ vars = NilVars
    /\ mapFlip = FALSE
    /\ result = None
    /\ mem \in NodeLists
    /\ gr = <<>>
    /\ written = {}

\* the following axis from each of the first two nodes, and the
\* ancestor-or-self and descendant-or-self axes from the second, drained
Relate ==
    /\ pc = "nodes"
    /\ pc' = "related"
    /\ result' = [api |-> "axes",
                  following |-> <<FollowingAxis(mem[1]), FollowingAxis(mem[2])>>,
                  ancestorOrSelf |-> AncestorOrSelfAxis(mem[2]),
                  descendantOrSelf |-> DescendantOrSelfAxis(mem[2])]
    /\ UNCHANGED <<cfg, ast, xp, ctxNode, vars, mapFlip, mem, gr, written>>

\* cmp on every pair of the nodes
Compare ==
    /\ pc = "nodes"
    /\ pc' = "compared"
    /\ result' = [api |-> "cmp",
                  r |-> [i \in 1 .. Len(mem) |->
                           [j \in 1 .. Len(mem) |-> cmp(mem[i], mem[j])]]]
    /\ UNCHANGED <<cfg, ast, xp, ctxNode, vars, mapFlip, mem, gr, written>>

\* order on the node list
Sort ==
    /\ pc = "nodes"
    /\ pc' = "sorted"
    /\ result' = [api |-> "order", r |-> order(mem)]
    /\ UNCHANGED <<cfg, ast, xp, ctxNode, vars, mapFlip, mem, gr, written>>

NextNodes ==
    \/ Relate
    \/ Compare
    \/ Sort

SpecNodes == InitNodes /\ [][NextNodes]_vars_all

(***************************************************************************)
(* A caller makes an iterator for an axis and a node and calls Next, up to *)
(* MaxNilCalls times after the iterator has returned nil.                  *)
(***************************************************************************)
MaxNilCalls == 2

InitIter ==
    /\ pc = "iterate"
    /\ cfg = WithFunctions
    /\ ast = NilExpr
    /\ xp = None
    /\ ctxNode \in AllNodes
    /\ vars = NilVars
    /\ mapFlip \in BOOLEAN
    /\ result = [api |-> "Next", r |-> Nil, nils |-> 0]
    /\ mem = <<>>
    /\ \E axis \in Axes : gr = [axis |-> axis, iter |-> NewIter(axis, ctxNode, mapFlip)]
    /\ written = {}

\* the caller takes what Next returned: a node joins the nodes yielded so far
Taken(got) ==
    /\ gr' = [gr EXCEPT !.iter = got.it]
    /\ mem' = IF IsNil(got.n) THEN mem ELSE Append(mem, got.n)
    /\ result' = [api |-> "Next", r |-> got.n,
                  nils |-> result.nils + (IF IsNil(got.n) THEN 1 ELSE 0)]

\* one call of Next
IterStep ==
    /\ pc = "iterate"
    /\ result.nils < MaxNilCalls
    /\ \E got \in {IterNext(gr.iter)} : Taken(got)
    /\ UNCHANGED <<pc, cfg, ast, xp, ctxNode, vars, mapFlip, written>>

NextIter ==
    \/ IterStep

SpecIter == InitIter /\ [][NextIter]_vars_all

\* the caller goes on calling Next
SpecIterLive == SpecIter /\ WF_vars_all(IterStep)

(***************************************************************************)
(* Properties.                                                             *)
(***************************************************************************)
\* the client's Eval call has returned a value
Evaluated(api) ==
    pc = "done" /\ xp.kind = "ok" /\ result.api = api /\ result.r.kind = "value"

\* strictly increasing under cmp: in document order, and no node twice
DocumentOrdered(ns) ==
    \A i, j \in 1 .. Len(ns) : i < j => cmp(ns[i], ns[j]) < 0

IsPathOrUnion(e) == e.k = "LocationPath" \/ (e.k = "BinaryExpr" /\ e.Op = "|")

\* C1: the node-set Eval returns for a location path or a union is in strict
\* document order, as cmp decides it, and holds no node twice; single-step
\* paths and unions with an empty operand included.
C1_DocumentOrder ==
    Evaluated("Eval") /\ IsPathOrUnion(ast) => DocumentOrdered(result.r.v.ns)

Err(e) == [kind |-> "error", err |-> e]

\* an API call on the compiled expression has returned, one way or another
Called == pc = "done" /\ xp.kind = "ok"

\* C2: no panic leaves Eval, EvalString, EvalNumber, EvalBoolean or
\* EvalNodeSet, whatever the expression, the context node (nil included) and
\* the variable bindings: every failure comes back as an error value.
C2_NoPanicEscapes == Called => result.r.kind # "crash"

Compiled == pc \in {"eval", "done"}

IsCoreCall(e) ==
    e.k = "FuncCall" /\ e.Prefix = "" /\ ClarkName("", e.Local) \in CoreNames

\* C3: compiling a call of a core function with any number of arguments
\* succeeds or returns ArgCount, and never panics; boolean() returns ArgCount.
C3_CoreCallCompiles ==
    Compiled /\ IsCoreCall(ast) =>
        /\ xp.kind = "ok" \/ xp = Err("ArgCount")
        /\ ast.Local = "boolean" /\ ast.Args = <<>> => xp = Err("ArgCount")

\* the Clark name of the called function, resolved as the compiler does
CalledName(e) == ClarkName(resolvePrefix(cfg, e.Prefix), e.Local)

IsUnknownCall(e) ==
    /\ e.k = "FuncCall"
    /\ CalledName(e) \notin CoreNames
    /\ Resolve(CalledName(e)) = NoFunction

\* C4: compiling a call of a function that is in neither the core table nor
\* the user-function table returns UnresolvedFunction, whether the compiler's
\* Functions field is set or nil.
C4_UnresolvedFunction ==
    Compiled /\ IsUnknownCall(ast) => xp = Err("UnresolvedFunction")

\* C5: a successful Eval returns a value whose dynamic type is the declared
\* type Returns() of the compiled expression, or one of the four types when
\* the declared type is Unknown; user functions and variables included.
C5_DeclaredType ==
    Evaluated("Eval") =>
        /\ ~ TypeOfPanics(result.r.v)
        /\ Returns(xp.expr) # Unknown => TypeOf(result.r.v) = Returns(xp.expr)

\* the functions whose value depends on the context: position, last, lang,
\* and the functions that take the context node when called without argument
ConsultsContext(e) ==
    /\ e.Prefix = ""
    /\ \/ e.Local \in {"position", "last", "lang"}
       \/ /\ e.Args = <<>>
          /\ IsCoreCall(e)
          /\ Lookup(coreFunctions, ClarkName("", e.Local)).dflt

\* e has no variable, no axis and no context-dependent function
RECURSIVE ContextFree(_)
ContextFree(e) ==
    CASE e.k \in {"Number", "String"} -> TRUE
      [] e.k = "NegateExpr" -> ContextFree(e.Expr)
      [] e.k = "BinaryExpr" -> ContextFree(e.LHS) /\ ContextFree(e.RHS)
      [] e.k = "FuncCall" ->
            /\ ~ ConsultsContext(e)
            /\ \A i \in 1 .. Len(e.Args) : ContextFree(e.Args[i])
      [] OTHER -> FALSE

\* C7: for an expression with no variable, no axis and no context-dependent
\* function, the simplified expression evaluated with a nil node and nil
\* variables gives what the unsimplified expression gives in any context.
C7_SimplifyEquivalent ==
    pc = "done" /\ ContextFree(ast) =>
        /\ xp.kind = "ok"
        /\ XPathEval(xp, Nil, NilVars, FALSE)
             = XPathEval([kind |-> "ok", expr |-> compile(cfg, ast)],
                         ctxNode, vars, mapFlip)

RelationalOps == {"<", "<=", ">", ">="}

\* a literal whose number value is NaN
IsNaNLiteral(e) == e.k \in {"Number", "String"} /\ Value2Number(e.v).nan

IsNaNComparison(e) ==
    /\ e.k = "BinaryExpr"
    /\ e.Op \in RelationalOps
    /\ \/ IsNaNLiteral(e.LHS) /\ e.RHS.k = "LocationPath"
       \/ IsNaNLiteral(e.RHS) /\ e.LHS.k = "LocationPath"

\* C8: a relational comparison of a literal that converts to NaN with a
\* location path compiles to the literal false: IsStatic() is true and
\* Eval(nil, nil) returns false without error.
C8_NaNComparisonStatic ==
    Compiled /\ IsNaNComparison(ast) =>
        /\ xp.kind = "ok"
        /\ IsStatic(xp)
        /\ XPathEval(xp, Nil, NilVars, FALSE) = [kind |-> "value", v |-> BoolV(FALSE)]

\* e is built only from literals, operators and context-independent core
\* functions
RECURSIVE LiteralsOnly(_)
LiteralsOnly(e) ==
    CASE e.k \in {"Number", "String"} -> TRUE
      [] e.k = "NegateExpr" -> LiteralsOnly(e.Expr)
      [] e.k = "BinaryExpr" -> e.Op # "|" /\ LiteralsOnly(e.LHS) /\ LiteralsOnly(e.RHS)
      [] e.k = "FuncCall" ->
            /\ IsCoreCall(e)
            /\ ~ ConsultsContext(e)
            /\ \A i \in 1 .. Len(e.Args) : LiteralsOnly(e.Args[i])
      [] OTHER -> FALSE

\* C9: after compilation every sub-expression whose operands are all
\* literals is a literal, unary negation of a number included, so IsStatic()
\* is true for every expression built only from literals, operators and
\* context-independent core functions.
C9_LiteralsFold ==
    Compiled /\ LiteralsOnly(ast) => xp.kind = "ok" /\ IsStatic(xp)

\* the first thing the evaluation of e evaluates is a variable reference
\* (and/or are left out: simplification may drop an operand of theirs)
RECURSIVE VarFirst(_)
VarFirst(e) ==
    CASE e.k = "VarRef" -> TRUE
      [] e.k = "NegateExpr" -> VarFirst(e.Expr)
      [] e.k = "BinaryExpr" -> e.Op \notin {"and", "or"} /\ VarFirst(e.LHS)
      [] e.k = "FuncCall" -> e.Args # <<>> /\ VarFirst(e.Args[1])
      [] e.k = "FilterExpr" -> VarFirst(e.Expr)
      [] e.k = "PathExpr" -> VarFirst(e.Filter)
      [] OTHER -> FALSE

\* that reference is an operand of a union or the node-set argument of a
\* core function
RECURSIVE VarInNodeSetPosition(_)
VarInNodeSetPosition(e) ==
    CASE e.k = "NegateExpr" -> VarInNodeSetPosition(e.Expr)
      [] e.k = "BinaryExpr" ->
            IF e.LHS.k = "VarRef" THEN e.Op = "|" ELSE VarInNodeSetPosition(e.LHS)
      [] e.k = "FuncCall" ->
            IF e.Args[1].k = "VarRef"
            THEN /\ IsCoreCall(e)
                 /\ typeOf(Lookup(coreFunctions, ClarkName("", e.Local)).Args, 0) = NodeSet
            ELSE VarInNodeSetPosition(e.Args[1])
      [] e.k = "FilterExpr" -> e.Expr.k # "VarRef" /\ VarInNodeSetPosition(e.Expr)
      [] e.k = "PathExpr" -> e.Filter.k # "VarRef" /\ VarInNodeSetPosition(e.Filter)
      [] OTHER -> FALSE

\* no bindings are supplied, or they return nothing for the variable
Unbound(vs) == vs.isNil \/ vs.v = NilV

\* C10: a variable reference compiles; evaluating it fails with
\* UnresolvedVariable when no bindings are supplied or they have nothing for
\* its name, and with VarMustBeNodeSet when it stands where a node-set is
\* required (union operand, node-set argument) and is bound to a value that
\* is no node-set; Eval returns both as errors.
C10_VariableErrors ==
    VarFirst(ast) =>
        /\ Compiled => xp.kind = "ok"
        /\ Called /\ result.api = "Eval" /\ Unbound(vars) =>
                result.r = Err("UnresolvedVariable")
        /\ Called /\ result.api = "Eval" /\ ~ Unbound(vars)
                /\ VarInNodeSetPosition(ast) /\ vars.v.t # "ns" =>
                result.r = Err("VarMustBeNodeSet")

\* Eval has returned VarMustBeNodeSet for a variable bound to a string where
\* a node-set is required
C10_Witness ==
    /\ Called
    /\ result.api = "Eval"
    /\ VarFirst(ast)
    /\ VarInNodeSetPosition(ast)
    /\ vars = VariableMap(StrV(<<"a">>))
    /\ result.r = Err("VarMustBeNodeSet")

\* C6: two concurrent evaluations of one compiled expression with the same
\* document and the same variable bindings share no mutable state: neither
\* writes the compiled expression tree, and neither writes memory the other
\* can read, such as the node-set slice bound to a variable.
C6_NoSharedWrites ==
    /\ xp = Compile(cfg, ast)
    /\ written = {}
    /\ SubSeq(mem, 1, Len(vars.v.ns)) = vars.v.ns

\* the first value the evaluation of e produces comes from a variable bound
\* to a value of no XPath type, or from the hook of ux:int, which returns one
RECURSIVE ForeignFirst(_, _)
ForeignFirst(e, vs) ==
    CASE e.k = "VarRef" -> ~ Unbound(vs) /\ TypeOfPanics(vs.v)
      [] e.k = "NegateExpr" -> ForeignFirst(e.Expr, vs)
      [] e.k = "BinaryExpr" -> e.Op \notin {"and", "or"} /\ ForeignFirst(e.LHS, vs)
      [] e.k = "FuncCall" ->
            \/ e.Prefix = "x" /\ e.Local = "int" /\ e.Args = <<Position>>
            \/ e.Args # <<>> /\ ForeignFirst(e.Args[1], vs)
      [] e.k = "FilterExpr" -> ForeignFirst(e.Expr, vs)
      [] e.k = "PathExpr" -> ForeignFirst(e.Filter, vs)
      [] OTHER -> FALSE

\* C11: when the hook of a user function or a variable binding produces a
\* value that is no node-set, string, number or boolean, Eval fails with
\* InvalidValue: the value is neither returned nor handed to the enclosing
\* operator.  (A variable where a node-set is required fails with
\* VarMustBeNodeSet first, and is left out.)
C11_InvalidValue ==
    Called /\ result.api = "Eval" /\ ForeignFirst(ast, vars)
           /\ ~ (VarFirst(ast) /\ VarInNodeSetPosition(ast)) =>
        result.r = Err("InvalidValue")

\* the whole number a literal k or -k stands for
WholeNumber(p) ==
    IF p.k = "NegateExpr" THEN 0 - (p.Expr.v.n \div Scale) ELSE p.v.n \div Scale

IsWholeNumber(p) ==
    \/ p.k = "Number" /\ ~ p.v.nan /\ p.v.n % Scale = 0
    \/ p.k = "NegateExpr" /\ p.Expr.k = "Number" /\ p.Expr.v.n % Scale = 0

IsPositionTest(p) ==
    p.k = "BinaryExpr" /\ p.Op = "=" /\ p.LHS = Position /\ IsWholeNumber(p.RHS)

\* one step with the single predicate [k] or [position()=k]
IsPositionStep(e) ==
    /\ e.k = "LocationPath" /\ ~ e.Abs /\ Len(e.Steps) = 1
    /\ Len(e.Steps[1].Predicates) = 1
    /\ IsWholeNumber(e.Steps[1].Predicates[1]) \/ IsPositionTest(e.Steps[1].Predicates[1])

PositionAsked(e) ==
    IF IsPositionTest(e.Steps[1].Predicates[1])
    THEN WholeNumber(e.Steps[1].Predicates[1].RHS)
    ELSE WholeNumber(e.Steps[1].Predicates[1])

\* the nodes the axis of the step yields from n that pass its node test, in
\* the order the axis yields them
AxisSelects(e, n) ==
    SelectSeq(AxisNodes(e.Steps[1].Axis, n, <<1, 1>>, mapFlip),
              LAMBDA m : Test(nodeTest(cfg, e.Steps[1].Axis, e.Steps[1].NodeTest), m))

Kth(ns, k) == IF 1 <= k /\ k <= Len(ns) THEN <<ns[k]>> ELSE <<>>

\* C12: a step applied to one context node whose axis and node test select n
\* nodes, with the predicate [k] or [position()=k], selects exactly the k-th
\* of those nodes (1-based, counted among the nodes that pass the test) when
\* 1 <= k <= n, and selects no node, without an error, when k < 1 or k > n.
C12_PositionPredicate ==
    Called /\ result.api = "Eval" /\ IsPositionStep(ast) /\ ctxNode # Nil =>
        result.r = [kind |-> "value",
                    v |-> NodeSetV(Kth(AxisSelects(ast, ctxNode), PositionAsked(ast)))]

\* position 2 of three selected nodes, and a position beyond the selected nodes
C12_Witness ==
    /\ Called /\ result.api = "Eval" /\ IsPositionStep(ast) /\ ctxNode # Nil
    /\ Len(AxisSelects(ast, ctxNode)) = 3 /\ PositionAsked(ast) = 2
    /\ result.r.kind = "value" /\ Len(result.r.v.ns) = 1

\* a node of the tree: no attribute, no namespace node
IsTreeNode(n) == KindOf(n) \in {"doc", "elem", "text", "comment", "pi"}

ExactlyOne(p, q, r) == (p /\ ~ q /\ ~ r) \/ (~ p /\ q /\ ~ r) \/ (~ p /\ ~ q /\ r)

\* the axes from two distinct tree nodes a = mem[1], b = mem[2] have been drained
Related ==
    pc = "related" /\ mem[1] # mem[2] /\ IsTreeNode(mem[1]) /\ IsTreeNode(mem[2])

\* C13: for two distinct nodes a, b of one document, neither an attribute nor
\* a namespace node, exactly one holds: a is on the following axis of b; b is
\* on the following axis of a; a is on the ancestor-or-self or the
\* descendant-or-self axis of b.
C13_Trichotomy ==
    Related =>
        ExactlyOne(mem[1] \in Range(result.following[2]),
                   mem[2] \in Range(result.following[1]),
                   mem[1] \in Range(result.ancestorOrSelf)
                              \cup Range(result.descendantOrSelf))

\* b follows a without being its sibling
C13_Witness ==
    /\ Related
    /\ mem[2] \in Range(result.following[1])
    /\ mem[2] \notin Range(FollowingSiblingAxis(mem[1]))

\* Mandatory < Optional < Variadic
Cardinality10(arg) == arg \div 10

\* never decreasing, and at most one Variadic (which is then the last entry)
Monotone(a) ==
    /\ \A i, j \in 1 .. Len(a) : i < j => Cardinality10(a[i]) <= Cardinality10(a[j])
    /\ \A i, j \in 1 .. Len(a) :
            Cardinality10(a[i]) = 2 /\ Cardinality10(a[j]) = 2 => i = j

IsSignatureCall(e) == e.k = "FuncCall" /\ e.Prefix = "s"

\* C14: Args.Valid() is true exactly for the signatures that never decrease
\* under Mandatory < Optional < Variadic and hold at most one Variadic, as the
\* last entry; compiling a call of a function whose signature is invalid
\* fails with the Signature error, whatever the number of arguments.
C14_Signature ==
    Compiled /\ IsSignatureCall(ast) =>
        /\ Valid(ast.Local) <=> Monotone(ast.Local)
        /\ ~ Monotone(ast.Local) => xp = Err("Signature")
        /\ Monotone(ast.Local) => xp # Err("Signature")

\* an entry after the Variadic one, in a call whose argument count the
\* signature would not accept either
C14_Witness ==
    /\ Compiled /\ IsSignatureCall(ast)
    /\ ast.Local = <<Mandatory(String), Variadic(String), Optional(String)>>
    /\ Len(ast.Args) = 0
    /\ xp = Err("Signature")

\* the type declared for the i-th argument (i from 1): that of the i-th
\* entry, and that of the final entry beyond the declared entries
DeclaredType(a, i) == IF i <= Len(a) THEN a[i] % 10 ELSE a[Len(a)] % 10

ConvertedTo(t, v) ==
    CASE t = String -> Value2String(v)
      [] t = Number -> Value2Number(v)
      [] t = Boolean -> Value2Boolean(v)
      [] OTHER -> v

\* the value of the i-th argument of the call e, evaluated on its own
ArgValue(e, i) ==
    XPathEval([kind |-> "ok", expr |-> compile(cfg, e.Args[i])], ctxNode, vars, mapFlip).v

IsTypedCall(e) == IsSignatureCall(e) /\ e.Local \in TypedSignatures

\* C15: a call prefix:local whose prefix is bound to the non-empty URI u
\* compiles to the user function registered under the Clark name {u}local;
\* at evaluation its hook receives the arguments in call order, each converted
\* to the type declared for its position, the arguments beyond the declared
\* entries to the type of the final (variadic) entry.
C15_UserCall ==
    Compiled /\ IsTypedCall(ast) /\ xp.kind = "ok" =>
        /\ xp.expr.k = "funcCall"
        /\ xp.expr.impl = ClarkName("us", ast.Local)
        /\ Evaluated("Eval") =>
              result.r.v.args =
                  [i \in 1 .. Len(ast.Args) |->
                      ConvertedTo(DeclaredType(ast.Local, i), ArgValue(ast, i))]

\* three arguments for two declared entries: the third is converted to the
\* number the variadic entry declares
C15_Witness ==
    /\ Evaluated("Eval")
    /\ ast = FuncCall("s", <<Mandatory(String), Variadic(Number)>>,
                      <<Position, V, Path(<<AxisStep("child")>>)>>)
    /\ vars = VariableMap(NumV(Scale))
    /\ ctxNode = N(2)
    /\ result.r.v.args = <<StrV(<<"0">>), NumV(Scale), NumV(Scale)>>

\* the caller's table has an entry under the called name
HasUserEntry(e) == cfg.Functions /\ Resolve(CalledName(e)) # NoFunction

\* C16: a user function table never overrides a built-in function: a call of
\* a core name compiles to the core function, as it does without any table,
\* and the user entry under that name is neither resolved nor invoked (no
\* funcCall holding its hook is built).
C16_NoOverride ==
    Compiled /\ IsCoreCall(ast) /\ HasUserEntry(ast) =>
        /\ xp = Compile(NoFunctions, ast)
        /\ xp.kind = "ok" => xp.expr.k # "funcCall"

\* count($v) with a user entry under the name count
C16_Witness ==
    /\ Compiled /\ IsCoreCall(ast) /\ HasUserEntry(ast)
    /\ ast = FuncCall("", "count", <<V>>)
    /\ xp.kind = "ok" /\ xp.expr.k = "count"

\* two steps, the second with predicates
IsPredicatedTwoStep(e) ==
    /\ e.k = "LocationPath" /\ Len(e.Steps) = 2
    /\ e.Steps[1].Predicates = <<>> /\ e.Steps[2].Predicates # <<>>

\* the nodes the relative path of the single step s selects from n
StepFrom(s, n) ==
    XPathEval(Compile(cfg, Path(<<s>>)), n, vars, mapFlip).v.ns

\* C17: the result of a step with predicates over several context nodes is
\* the union of the results the step has for each context node on its own:
\* which nodes a context node selects, and their positions, do not depend on
\* the context nodes that were processed before it.
C17_PerContextUnion ==
    Evaluated("Eval") /\ IsPredicatedTwoStep(ast) /\ ctxNode # Nil =>
        Range(result.r.v.ns)
            = UNION {Range(StepFrom(ast.Steps[2], c)) :
                        c \in Range(StepFrom(ast.Steps[1], ctxNode))}

\* b is a namespace or attribute node of the element a
IsOwnNode(a, b) == IsElement(a) /\ KindOf(b) \in {"ns", "attr"} /\ Parent(b) = a

\* C18: cmp places an element before its namespace nodes, the namespace
\* nodes before its attribute nodes, and all of them before the children of
\* the element and their descendants.
C18_ElementNamespacesAttributes ==
    pc = "compared" =>
        /\ IsOwnNode(mem[1], mem[2]) => result.r[1][2] < 0
        /\ KindOf(mem[1]) = "ns" /\ KindOf(mem[2]) = "attr"
              /\ Parent(mem[1]) = Parent(mem[2]) => result.r[1][2] < 0
        /\ KindOf(mem[1]) \in {"ns", "attr"}
              /\ mem[2] \in Range(DescendantAxis(Parent(mem[1]))) => result.r[1][2] < 0

\* the sequences with the elements of s in every order
Orderings(s) ==
    {[i \in 1 .. Len(s) |-> s[f[i]]] :
        f \in {g \in [1 .. Len(s) -> 1 .. Len(s)] :
                  \A i, j \in 1 .. Len(s) : g[i] = g[j] => i = j}}

\* C19: cmp is a strict total order on the nodes of one document: it is 0
\* only for a node and itself, cmp(a, b) = -cmp(b, a), and it is transitive
\* across elements, attribute nodes, namespace nodes and child nodes; so
\* sorting a list of nodes gives the same sequence whatever the input order.
C19_StrictTotalOrder ==
    /\ pc = "compared" =>
          \A i, j, k \in 1 .. Len(mem) :
              /\ result.r[i][j] = 0 <=> mem[i] = mem[j]
              /\ result.r[i][j] = 0 - result.r[j][i]
              /\ result.r[i][j] < 0 /\ result.r[j][k] < 0 => result.r[i][k] < 0
    /\ pc = "sorted" => \A p \in Orderings(mem) : order(p) = result.r

\* one step whose single predicate is a number literal
IsNumberStep(e) ==
    /\ e.k = "LocationPath" /\ ~ e.Abs /\ Len(e.Steps) = 1
    /\ Len(e.Steps[1].Predicates) = 1
    /\ e.Steps[1].Predicates[1].k = "Number"
    /\ ~ e.Steps[1].Predicates[1].v.nan

\* round(i) = floor(i + 0.5), as a whole number
RoundHalfUp(n) == Floor(n + Scale \div 2) \div Scale

\* C20: when a predicate evaluates to the number i, the node at position pos
\* is kept if and only if pos = round(i) = floor(i + 0.5): [1.5] keeps only
\* the node at position 2.
C20_RoundedPosition ==
    Called /\ result.api = "Eval" /\ IsNumberStep(ast) /\ ctxNode # Nil =>
        result.r = [kind |-> "value",
                    v |-> NodeSetV(Kth(AxisSelects(ast, ctxNode),
                                       RoundHalfUp(ast.Steps[1].Predicates[1].v.n)))]

\* the element, its attributes, then its children and their descendants
\* (namespace nodes, which no reverse axis yields from these context nodes,
\* are left out)
RECURSIVE DocumentOrderFrom(_)
DocumentOrderFrom(n) ==
    <<n>> \o AttributeAxis(n)
          \o Flatten([i \in 1 .. Len(ChildAxis(n)) |-> DocumentOrderFrom(ChildAxis(n)[i])])

\* the nodes of the set S in document order
InDocumentOrder(S) == SelectSeq(DocumentOrderFrom(N(0)), LAMBDA m : m \in S)

\* the axis step of the expression: the step itself, or the path in parentheses
ReverseStep(e) == IF e.k = "FilterExpr" THEN e.Expr.Steps[1] ELSE e.Steps[1]

ReversePredicate(e) ==
    IF e.k = "FilterExpr" THEN e.Predicates[1] ELSE e.Steps[1].Predicates[1]

\* the nodes the reverse axis yields from the context node
ReverseNodes(e) == Range(AxisNodes(ReverseStep(e).Axis, ctxNode, <<>>, FALSE))

IsReverse(e) ==
    /\ e.k \in {"FilterExpr", "LocationPath"}
    /\ e.k = "FilterExpr" => e.Expr.k = "LocationPath"
    /\ ReverseStep(e).Axis \in ReverseAxisNames
    /\ ReversePredicate(e) \in {One, Two, FirstTwo}

\* the positions the predicate keeps
KeptPositions(p) == IF p = One THEN {1} ELSE IF p = Two THEN {2} ELSE {1, 2}

Positions(ns, ks) == {ns[i] : i \in ks \cap (1 .. Len(ns))}

\* C21: on a reverse axis (ancestor, ancestor-or-self, preceding,
\* preceding-sibling) the positions of a predicate are counted in reverse
\* document order, position 1 being the node nearest the context node, and
\* the nodes of the step come out in document order; a predicate on a
\* parenthesised path counts the positions in document order.
C21_ReverseAxisPositions ==
    Evaluated("Eval") /\ IsReverse(ast) /\ ctxNode # Nil =>
        result.r.v.ns =
            InDocumentOrder(
                Positions(IF ast.k = "FilterExpr"
                          THEN InDocumentOrder(ReverseNodes(ast))
                          ELSE Reverse(InDocumentOrder(ReverseNodes(ast))),
                          KeptPositions(ReversePredicate(ast))))

\* the two nearest of three nodes on a reverse axis, delivered in document order
C21_Witness ==
    /\ Evaluated("Eval") /\ IsReverse(ast) /\ ctxNode # Nil
    /\ ast.k = "LocationPath" /\ ReversePredicate(ast) = FirstTwo
    /\ Cardinality(ReverseNodes(ast)) = 3
    /\ Len(result.r.v.ns) = 2
    /\ result.r.v.ns[2] = AxisNodes(ReverseStep(ast).Axis, ctxNode, <<>>, FALSE)[1]

\* the nodes of the tree (no attribute, no namespace node) in document order
TreeOrder == SelectSeq(DocumentOrderFrom(N(0)), IsTreeNode)

\* the place in document order of n, or of its element when n is an
\* attribute or namespace node (which sit between the element and its children)
TreePlace(n) == IndexOf(TreeOrder, IF IsTreeNode(n) THEN n ELSE Parent(n))

\* the tree nodes after n in document order that are no descendants of n
After(n) ==
    SelectSeq(TreeOrder,
              LAMBDA m : /\ TreePlace(m) > TreePlace(n)
                         /\ IsTreeNode(n) => m \notin Range(DescendantAxis(n)))

\* C22: for every context node, an attribute or namespace node included, the
\* following axis yields, in document order and each once, exactly the nodes
\* of the document after the context node in document order, without the
\* descendants of the context node and without attribute and namespace nodes.
C22_FollowingAxis ==
    pc = "related" => result.following[1] = After(mem[1])

\* the tree nodes before n in document order that are no ancestors of n
Before(n) ==
    SelectSeq(TreeOrder,
              LAMBDA m : /\ TreePlace(m) < TreePlace(n)
                         /\ m \notin Range(AncestorOrSelfAxis(n)))

\* the iterator of the axis has returned nil
Drained(axis) == pc = "iterate" /\ gr.axis = axis /\ result.nils >= 1

\* C23: for every context node the preceding axis yields, in reverse document
\* order and each once, exactly the nodes of the document before the context
\* node in document order, without the ancestors of the context node and
\* without attribute and namespace nodes.
C23_PrecedingAxis ==
    Drained("preceding") => mem = Reverse(Before(ctxNode))

\* the preceding sibling of the element d and the text node inside it
C23_Witness ==
    Drained("preceding") /\ ctxNode = N(4) /\ mem = <<N(3), N(2)>>

\* the chain of XPath-parents of n, nearest first, up to the document
RECURSIVE ParentChain(_)
ParentChain(n) == IF IsNil(Parent(n)) THEN <<>> ELSE <<Parent(n)>> \o ParentChain(Parent(n))

\* C24: the ancestor axis of any node, an attribute or namespace node
\* included, yields its chain of XPath-parents up to the document root: for
\* an attribute or namespace node the owner element first, then the
\* ancestors of that element.
C24_AncestorAxis ==
    Drained("ancestor") => mem = ParentChain(ctxNode)

\* xml and the prefixes declared on the element n or an ancestor element
InScopePrefixes(n) ==
    {"xml"} \cup UNION {Range(DocNSDecl[e.own + 1]) :
                            e \in {a \in Range(AncestorOrSelfAxis(n)) : IsElement(a)}}

PrefixesOf(ns) == [i \in 1 .. Len(ns) |-> ns[i].pfx]

\* C25: for an element the namespace axis yields one namespace node for each
\* in-scope prefix (xml and the prefixes declared on the element or on an
\* ancestor element), each owned by the element and no prefix twice, in a
\* sequence that is the same on every call; for any other node it is empty.
C25_NamespaceAxis ==
    Drained("namespace") =>
        /\ ~ IsElement(ctxNode) => mem = <<>>
        /\ IsElement(ctxNode) =>
              /\ Range(PrefixesOf(mem)) = InScopePrefixes(ctxNode)
              /\ Len(mem) = Cardinality(InScopePrefixes(ctxNode))
              /\ \A i \in 1 .. Len(mem) : Parent(mem[i]) = ctxNode
              /\ PrefixesOf(mem) = PrefixesOf(NamespaceAxis(ctxNode, <<>>, FALSE))

IsLogical(e) == e.k = "BinaryExpr" /\ e.Op \in {"and", "or"}

\* false for and, true for or
SkipValue(e) == BoolV(e.Op = "or")

\* what evaluating the compiled expression x gives in the context of the call
EvalHere(x) == XPathEval([kind |-> "ok", expr |-> x], ctxNode, vars, mapFlip)

IsBelowOneTest(e) ==
    /\ IsPositionStep(e)
    /\ IsPositionTest(e.Steps[1].Predicates[1])
    /\ PositionAsked(e) < 1

\* C27: in every context an expression is evaluated in, the top-level one
\* created by Eval and every predicate context, 1 <= position <= size: at
\* the top level position() is at least 1 and at most last(), and in a
\* predicate no node is at a position below 1.
C27_PositionWithinSize ==
    Called /\ result.api = "Eval" /\ result.r.kind = "value" =>
        /\ ast = Position =>
                /\ result.r.v.n >= Scale
                /\ result.r.v.n <= EvalHere(compile(cfg, LastCall)).v.n
        /\ IsBelowOneTest(ast) => result.r.v = NodeSetV(<<>>)

\* the backing array of the slice bound to $v as the caller made it: the
\* nodes of the binding, then the unused capacity
AsBound == vars.v.ns \o [i \in 1 .. Len(mem) - Len(vars.v.ns) |-> Nil]

\* the binding of $v as the caller reads it now
BoundNow == VariableMap(NodeSetV(SubSeq(mem, 1, Len(vars.v.ns))))

\* one call of Eval has returned and no other has started
OneCallDone == gr[1].at = "done" /\ gr[2].at = "idle"

\* C28: Eval does not modify its inputs: the node-set slice bound to a
\* variable is neither reordered, appended into nor overwritten, also by a
\* union whose operand is the variable, so evaluating the expression again
\* with the same bindings gives the same result.
C28_InputsUnmodified ==
    gr[2].at = "idle" =>
        /\ mem = AsBound
        /\ OneCallDone =>
                XPathEval(xp, gr[1].node, BoundNow, mapFlip) =
                    [kind |-> "value", v |-> NodeSetV(Contents(gr[1].ret))]

\* C29: simplification never hides an evaluation error: when evaluating the
\* unsimplified expression in the context of the call fails, Eval on the
\* compiled, simplified expression fails with the same error.
C29_SimplifyKeepsErrors ==
    Called /\ result.api = "Eval"
           /\ EvalHere(compile(cfg, ast)).kind = "error" =>
        result.r = EvalHere(compile(cfg, ast))

\* no node of mem is in it twice
NoNodeTwice == \A i, j \in 1 .. Len(mem) : mem[i] = mem[j] => i = j

\* Next has returned nil before, and the last call returned nil
NilStays == result.nils >= 1 => IsNil(result.r)

\* C30: for every axis and every context node of the document, the iterator
\* returns nil after finitely many Next calls, yields no node twice before
\* that, and once it has returned nil every later Next returns nil.
C30_IteratorEnds ==
    /\ [](pc = "iterate" => NoNodeTwice /\ NilStays)
    /\ <>(pc = "iterate" /\ result.nils >= 1)

\* the following axis of the text node: Next has yielded d, then returned
\* nil twice
C30_Witness ==
    /\ pc = "iterate"
    /\ gr.axis = "following"
    /\ ctxNode = N(3)
    /\ mem = <<N(4)>>
    /\ result.nils = 2

=============================================================================
